---- MODULE Spec2Model ----
(***************************************************************************)
(* PostgreSQL/Rails analyzer scripts (el-feo/ai-context):                  *)
(*   analyze_indexes.py   schema parser, missing-FK / boolean / WHERE      *)
(*                        analyzers and the index report                   *)
(*   analyze_n_plus_one.py  controller / view scanners and exit status     *)
(*   analyze_config.py    database.yml analyzers and exit status           *)
(*                                                                         *)
(* Text is modelled as TLA+ strings, character by character: every regular *)
(* expression of the scripts is an operator that scans the string the way  *)
(* Python's re module does (leftmost match, greedy / lazy quantifiers,     *)
(* finditer resuming at the end of the previous match).                    *)
(***************************************************************************)
EXTENDS Integers, Sequences, FiniteSets, TLC

VARIABLES
    pc,                    \* position of the running script
    schema_src,            \* ghost: the blocks and index statements db/schema.rb was written from
    content,               \* text of db/schema.rb
    tables,                \* the dict parse_schema returns, in insertion order
    missing_fk_indexes,    \* last result of analyze_missing_indexes
    boolean_opportunities, \* last result of analyze_boolean_columns
    calls,                 \* how many times each schema analyzer has been called on the model
    ctl_src,               \* ghost: what the controller text was written from
    ctl_content,           \* text of one controller file
    ctl_issues,            \* result of analyze_controller_action on it
    prog,                  \* the script whose main runs ("none" when no main runs)
    root_found,            \* find_rails_root found the project root
    input_found,           \* the file the script requires exists below the root
    files,                 \* the source files below the root: path, text, readable, failure
    schema_failure,        \* the exception reading db/schema.rb raises, if any
    scan_order,            \* ghost: the file lists the globs yielded, in scan order
    database_yml,          \* config/database.yml: how loading it ends and the value loaded
    where_clause_columns,  \* result of analyze_where_clauses in the index main
    all_issues,            \* all_issues of the main that ran
    stdout,                \* what the main printed to standard output
    stderr,                \* what the main printed to standard error
    exit_code,             \* exit status of the process (-1 while it runs)
    start_path,            \* find_rails_root: the resolved directory the walk starts in
    marker_dirs,           \* the directories that hold config/application.rb
    current,               \* find_rails_root: the directory the walk is at
    section,               \* one environment section handed to analyze_connection_pool
    section_name,          \* the name of that environment
    pool_issues,           \* result of analyze_connection_pool on it
    frame,                 \* the locals of the schema analyzer call that is running
    lists,                 \* the list objects the analyzer calls created, by identity
    returns                \* what the analyzer calls returned, in call order

schemaVars == <<schema_src, content, tables, missing_fk_indexes, boolean_opportunities, calls>>
ctlVars == <<ctl_src, ctl_content, ctl_issues>>
mainVars == <<prog, root_found, input_found, files, schema_failure, scan_order, database_yml,
              where_clause_columns, all_issues, stdout, stderr, exit_code>>
rootVars == <<start_path, marker_dirs, current>>
poolVars == <<section, section_name, pool_issues>>
callVars == <<frame, lists, returns>>
vars == <<pc, schemaVars, ctlVars, mainVars, rootVars, poolVars, callVars>>

(***************************************************************************)
(* Bounds of the model.                                                    *)
(***************************************************************************)
MaxTables == 2
MaxIndexes == 1
MaxCalls == 2
MaxFetchLine == 4

(***************************************************************************)
(* Characters and regular-expression primitives.                           *)
(***************************************************************************)
Lower == {"a","b","c","d","e","f","g","h","i","j","k","l","m",
          "n","o","p","q","r","s","t","u","v","w","x","y","z"}
Upper == {"A","B","C","D","E","F","G","H","I","J","K","L","M",
          "N","O","P","Q","R","S","T","U","V","W","X","Y","Z"}
Digit == {"0","1","2","3","4","5","6","7","8","9"}

\* Texts are strings over the characters U+0000..U+00FF.
\* the letters and numbers of U+0080..U+00FF: the characters c of that range with
\* c.isalnum(), which the str pattern \w matches besides [a-zA-Z0-9_]
Latin1Word == {"ª","²","³","µ","¹","º","¼","½","¾","À","Á","Â","Ã",
               "Ä","Å","Æ","Ç","È","É","Ê","Ë","Ì","Í","Î","Ï","Ð",
               "Ñ","Ò","Ó","Ô","Õ","Ö","Ø","Ù","Ú","Û","Ü","Ý","Þ",
               "ß","à","á","â","ã","ä","å","æ","ç","è","é","ê","ë",
               "ì","í","î","ï","ð","ñ","ò","ó","ô","õ","ö","ø","ù",
               "ú","û","ü","ý","þ","ÿ"}

\* the characters of U+0000..U+00FF with c.isspace(), which the str pattern \s
\* matches: \t \n \v \f \r, the separators U+001C..U+001F, space, U+0085, U+00A0
Latin1Space == {"\t","\n","","\f","\r","","","",""," ",""," "}

\* \w
IsWordChar(c) ==
    c \in Lower \/ c \in Upper \/ c \in Digit \/ c = "_" \/ c \in Latin1Word
\* \s
IsSpaceChar(c) == c \in Latin1Space

\* the character of s at 1-based position i ("" outside s)
At(s, i) == IF i >= 1 /\ i <= Len(s) THEN SubSeq(s, i, i) ELSE ""

\* the literal lit occurs in s at position i
LitAt(s, i, lit) ==
    /\ i >= 1
    /\ i + Len(lit) - 1 <= Len(s)
    /\ SubSeq(s, i, i + Len(lit) - 1) = lit

\* \w* from i, greedy: the first position at or after i that holds no word character
RECURSIVE SkipWord(_, _)
SkipWord(s, i) == IF IsWordChar(At(s, i)) THEN SkipWord(s, i + 1) ELSE i

\* \s* from i, greedy
RECURSIVE SkipSpace(_, _)
SkipSpace(s, i) == IF IsSpaceChar(At(s, i)) THEN SkipSpace(s, i + 1) ELSE i

\* the leftmost occurrence of lit in s at or after i, 0 when there is none
Find(s, i, lit) ==
    LET hits == {j \in i..(Len(s) - Len(lit) + 1) : LitAt(s, j, lit)} IN
    IF hits = {} THEN 0
    ELSE CHOOSE j \in hits : \A k \in hits : j <= k

\* str.startswith / str.endswith
StartsWith(s, p) == LitAt(s, 1, p)
EndsWith(s, p) == Len(p) <= Len(s) /\ LitAt(s, Len(s) - Len(p) + 1, p)
Contains(s, lit) == Find(s, 1, lit) # 0

NoMatch == [ok |-> FALSE]

(***************************************************************************)
(* parse_schema: the four patterns.                                        *)
(***************************************************************************)
\* do\s*\|t\| lazily after .*? : the leftmost "do" at or after i that is followed
\* by optional space and "|t|"; the position after "|t|", 0 when there is none
RECURSIVE FindDoBlock(_, _)
FindDoBlock(s, i) ==
    LET d == Find(s, i, "do") IN
    IF d = 0 THEN 0
    ELSE LET b == SkipSpace(s, d + 2) IN
         IF LitAt(s, b, "|t|") THEN b + 3 ELSE FindDoBlock(s, d + 1)

\* table_pattern = create_table\s+"(\w+)".*?do\s*\|t\|(.*?)end   (re.DOTALL)
\* matched at position i
table_pattern(s, i) ==
    IF ~LitAt(s, i, "create_table") THEN NoMatch
    ELSE
    LET sp == SkipSpace(s, i + 12) IN
    IF sp = i + 12 \/ At(s, sp) # "\"" THEN NoMatch
    ELSE
    LET w == SkipWord(s, sp + 1) IN
    IF w = sp + 1 \/ At(s, w) # "\"" THEN NoMatch
    ELSE
    LET body == FindDoBlock(s, w + 1) IN
    IF body = 0 THEN NoMatch
    ELSE
    LET e == Find(s, body, "end") IN
    IF e = 0 THEN NoMatch
    ELSE [ok |-> TRUE,
          group1 |-> SubSeq(s, sp + 1, w - 1),
          group2 |-> SubSeq(s, body, e - 1),
          stop |-> e + 3]

\* col_pattern = t\.(\w+)\s+"(\w+)"  matched at position i
col_pattern(s, i) ==
    IF ~LitAt(s, i, "t.") THEN NoMatch
    ELSE
    LET w == SkipWord(s, i + 2) IN
    IF w = i + 2 THEN NoMatch
    ELSE
    LET sp == SkipSpace(s, w) IN
    IF sp = w \/ At(s, sp) # "\"" THEN NoMatch
    ELSE
    LET n == SkipWord(s, sp + 1) IN
    IF n = sp + 1 \/ At(s, n) # "\"" THEN NoMatch
    ELSE [ok |-> TRUE,
          group1 |-> SubSeq(s, i + 2, w - 1),
          group2 |-> SubSeq(s, sp + 1, n - 1),
          stop |-> n + 1]

\* fk_pattern = t\.\w+\s+"(\w+_id)"  matched at position i: the quoted word must
\* be at least one word character followed by _id
fk_pattern(s, i) ==
    LET m == col_pattern(s, i) IN
    IF m.ok /\ Len(m.group2) >= 4 /\ EndsWith(m.group2, "_id")
    THEN [ok |-> TRUE, group1 |-> m.group2, stop |-> m.stop]
    ELSE NoMatch

\* index_pattern = add_index\s+"(\w+)",\s+\[?"(\w+)"?\]?  matched at position i
index_pattern(s, i) ==
    IF ~LitAt(s, i, "add_index") THEN NoMatch
    ELSE
    LET sp == SkipSpace(s, i + 9) IN
    IF sp = i + 9 \/ At(s, sp) # "\"" THEN NoMatch
    ELSE
    LET w == SkipWord(s, sp + 1) IN
    IF w = sp + 1 \/ ~LitAt(s, w, "\",") THEN NoMatch
    ELSE
    LET sp2 == SkipSpace(s, w + 2) IN
    IF sp2 = w + 2 THEN NoMatch
    ELSE
    LET q == IF At(s, sp2) = "[" THEN sp2 + 1 ELSE sp2 IN
    IF At(s, q) # "\"" THEN NoMatch
    ELSE
    LET n == SkipWord(s, q + 1) IN
    IF n = q + 1 THEN NoMatch
    ELSE
    LET a == IF At(s, n) = "\"" THEN n + 1 ELSE n
        b == IF At(s, a) = "]" THEN a + 1 ELSE a
    IN [ok |-> TRUE,
        group1 |-> SubSeq(s, sp + 1, w - 1),
        group2 |-> SubSeq(s, q + 1, n - 1),
        stop |-> b]

\* re.finditer(pattern, s): the matches of a pattern from position i on, leftmost
\* first, each search resuming where the previous match stopped
RECURSIVE finditer_table(_, _)
finditer_table(s, i) ==
    LET c == Find(s, i, "create_table") IN
    IF c = 0 THEN <<>>
    ELSE LET m == table_pattern(s, c) IN
         IF m.ok THEN <<m>> \o finditer_table(s, m.stop)
         ELSE finditer_table(s, c + 1)

RECURSIVE finditer_col(_, _)
finditer_col(s, i) ==
    LET c == Find(s, i, "t.") IN
    IF c = 0 THEN <<>>
    ELSE LET m == col_pattern(s, c) IN
         IF m.ok THEN <<m>> \o finditer_col(s, m.stop)
         ELSE finditer_col(s, c + 1)

RECURSIVE finditer_fk(_, _)
finditer_fk(s, i) ==
    LET c == Find(s, i, "t.") IN
    IF c = 0 THEN <<>>
    ELSE LET m == fk_pattern(s, c) IN
         IF m.ok THEN <<m>> \o finditer_fk(s, m.stop)
         ELSE finditer_fk(s, c + 1)

RECURSIVE finditer_index(_, _)
finditer_index(s, i) ==
    LET c == Find(s, i, "add_index") IN
    IF c = 0 THEN <<>>
    ELSE LET m == index_pattern(s, c) IN
         IF m.ok THEN <<m>> \o finditer_index(s, m.stop)
         ELSE finditer_index(s, c + 1)

(***************************************************************************)
(* The dict of tables: a sequence of entries in insertion order.           *)
(***************************************************************************)
HasKey(d, k) == \E i \in 1..Len(d) : d[i].name = k
Get(d, k) == d[CHOOSE i \in 1..Len(d) : d[i].name = k]

\* tables[table_name] = {...}: a new key goes last, an existing key keeps its place
DictSet(d, e) ==
    IF HasKey(d, e.name)
    THEN [i \in 1..Len(d) |-> IF d[i].name = e.name THEN e ELSE d[i]]
    ELSE Append(d, e)

\* the append with the match groups mixed up: the table name goes in the index list
AppendIndex_table_name(d, k, c) ==
    [i \in 1..Len(d) |->
        IF d[i].name = k THEN [d[i] EXCEPT !.indexes = Append(@, k)] ELSE d[i]]

\* tables[table_name]['indexes'].append(column_name)
AppendIndex(d, k, c) ==
    [i \in 1..Len(d) |->
        IF d[i].name = k THEN [d[i] EXCEPT !.indexes = Append(@, c)] ELSE d[i]]

\* the entry built from one table match (lines 35-54)
TableEntry(m) ==
    LET cols == finditer_col(m.group2, 1)
        fks == finditer_fk(m.group2, 1)
    IN [name |-> m.group1,
        columns |-> [i \in 1..Len(cols) |-> cols[i].group2],
        foreign_keys |-> [i \in 1..Len(fks) |-> fks[i].group1],
        indexes |-> <<>>]

RECURSIVE BuildTables(_, _, _)
BuildTables(ms, i, d) ==
    IF i > Len(ms) THEN d
    ELSE BuildTables(ms, i + 1, DictSet(d, TableEntry(ms[i])))

\* the index loop (lines 58-62)
RECURSIVE MergeIndexes(_, _, _)
MergeIndexes(ms, i, d) ==
    IF i > Len(ms) THEN d
    ELSE MergeIndexes(ms, i + 1,
            IF HasKey(d, ms[i].group1)
            THEN AppendIndex(d, ms[i].group1, ms[i].group2)
            ELSE d)

\* the two loops in the other order: index statements merged into the empty model,
\* table entries built afterwards
parse_schema_indexes_before_tables(text) ==
    BuildTables(finditer_table(text, 1), 1,
                MergeIndexes(finditer_index(text, 1), 1, <<>>))

parse_schema(text) ==
    MergeIndexes(finditer_index(text, 1), 1,
                 BuildTables(finditer_table(text, 1), 1, <<>>))

(***************************************************************************)
(* The schema-based analyzers.                                             *)
(***************************************************************************)
InSeq(x, sq) == \E i \in 1..Len(sq) : sq[i] = x

RECURSIVE Flatten(_)
Flatten(ss) == IF ss = <<>> THEN <<>> ELSE Head(ss) \o Flatten(Tail(ss))

RECURSIVE Filter(_, _, _)
\* the elements of sq, in order, that are not in the list excl
Filter(sq, i, excl) ==
    IF i > Len(sq) THEN <<>>
    ELSE (IF InSeq(sq[i], excl) THEN <<>> ELSE <<sq[i]>>) \o Filter(sq, i + 1, excl)

MissingIssue(t, fk) ==
    [table |-> t,
     column |-> fk,
     type |-> "missing_foreign_key_index",
     severity |-> "warning",
     message |-> "Foreign key " \o fk \o " on " \o t \o " should have an index",
     suggestion |-> "add_index :" \o t \o ", :" \o fk]

analyze_missing_indexes(d) ==
    Flatten([i \in 1..Len(d) |->
        LET fs == Filter(d[i].foreign_keys, 1, d[i].indexes) IN
        [j \in 1..Len(fs) |-> MissingIssue(d[i].name, fs[j])]])

\* the fixed names tested as prefixes too
IsBooleanName_prefixes(column) ==
    \/ StartsWith(column, "is_")
    \/ StartsWith(column, "has_")
    \/ \E n \in {"active", "enabled", "published", "deleted"} : StartsWith(column, n)

IsBooleanName(column) ==
    \/ StartsWith(column, "is_")
    \/ StartsWith(column, "has_")
    \/ column \in {"active", "enabled", "published", "deleted"}

BooleanIssue(t, column) ==
    [table |-> t,
     column |-> column,
     type |-> "boolean_index_opportunity",
     severity |-> "info",
     message |-> "Boolean column " \o column \o " on " \o t
                 \o " might benefit from a partial index",
     suggestion |-> "add_index :" \o t \o ", :" \o column
                    \o ", where: \"" \o column \o " = true\""]

RECURSIVE BooleanColumns(_, _)
BooleanColumns(cols, i) ==
    IF i > Len(cols) THEN <<>>
    ELSE (IF IsBooleanName(cols[i]) THEN <<cols[i]>> ELSE <<>>)
         \o BooleanColumns(cols, i + 1)

analyze_boolean_columns(d) ==
    Flatten([i \in 1..Len(d) |->
        LET bs == Filter(BooleanColumns(d[i].columns, 1), 1, d[i].indexes) IN
        [j \in 1..Len(bs) |-> BooleanIssue(d[i].name, bs[j])]])

(***************************************************************************)
(* analyze_n_plus_one.py: the controller and view analyzers.               *)
(***************************************************************************)
\* content.split('\n'): the pieces between newlines (one piece for a text without any)
RECURSIVE SplitAt(_, _, _)
SplitAt(s, i, newlines) ==
    LET rest == {j \in newlines : j >= i} IN
    IF rest = {} THEN <<SubSeq(s, i, Len(s))>>
    ELSE LET n == CHOOSE j \in rest : \A k \in rest : j <= k IN
         <<SubSeq(s, i, n - 1)>> \o SplitAt(s, n + 1, newlines)

split(s) == SplitAt(s, 1, {j \in 1..Len(s) : At(s, j) = "\n"})

\* '\n'.join(lines[a:b]) for 0-based a, b (Python slice)
RECURSIVE join(_, _, _)
join(lines, a, b) ==
    IF a >= b \/ a >= Len(lines) THEN ""
    ELSE lines[a + 1] \o (IF a + 1 < b /\ a + 1 < Len(lines) THEN "\n" ELSE "")
         \o join(lines, a + 1, b)

Min(a, b) == IF a <= b THEN a ELSE b
Max(a, b) == IF a >= b THEN a ELSE b

\* \.(alt1|alt2|...)\b matched at position i: a dot, one of the alternatives,
\* then a word boundary
DotWordAt(s, i, alts) ==
    /\ At(s, i) = "."
    /\ \E a \in alts :
        /\ LitAt(s, i + 1, a)
        /\ ~IsWordChar(At(s, i + 1 + Len(a)))

\* re.search(r'\.(all|where|find_by|find)\b', line)
fetch_search(line) ==
    \E i \in 1..Len(line) : DotWordAt(line, i, {"all", "where", "find_by", "find"})

\* re.search(r'\.(includes|preload|eager_load)\b', context)
eager_search(context) ==
    \E i \in 1..Len(context) : DotWordAt(context, i, {"includes", "preload", "eager_load"})

\* @(\w+)\s*=  matched at position i
var_pattern(s, i) ==
    IF At(s, i) # "@" THEN NoMatch
    ELSE
    LET w == SkipWord(s, i + 1) IN
    IF w = i + 1 \/ At(s, SkipSpace(s, w)) # "=" THEN NoMatch
    ELSE [ok |-> TRUE, group1 |-> SubSeq(s, i + 1, w - 1)]

\* re.search(r'@(\w+)\s*=', line): the leftmost match
var_search(line) ==
    LET hits == {i \in 1..Len(line) : var_pattern(line, i).ok} IN
    IF hits = {} THEN NoMatch
    ELSE var_pattern(line, CHOOSE i \in hits : \A k \in hits : i <= k)

\* re.search(rf'@{var_name}\.\w+\.\w+', line)
chain_search(var_name, line) ==
    \E i \in 1..Len(line) :
        LET lit == "@" \o var_name \o "."
            w == SkipWord(line, i + Len(lit))
        IN /\ LitAt(line, i, lit)
           /\ w > i + Len(lit)
           /\ At(line, w) = "."
           /\ IsWordChar(At(line, w + 1))

\* the lookahead started one line early, at the fetch line itself
LookaheadHit_from_own_line(lines, i, var_name) ==
    \E j \in (i - 1)..(Min(Len(lines), i + 20) - 1) : chain_search(var_name, lines[j + 1])

\* the lookahead loop (lines 63-72): for j in range(i, min(len(lines), i + 20)),
\* lines[j] 0-based, so 1-based lines i+1 .. min(len, i+20)
LookaheadHit(lines, i, var_name) ==
    \E j \in i..(Min(Len(lines), i + 20) - 1) : chain_search(var_name, lines[j + 1])

NPlusOneIssue(file_path, i) ==
    [file |-> file_path,
     line |-> i,
     type |-> "potential_n_plus_one",
     severity |-> "warning",
     message |-> "Potential N+1 query: Query at line " \o ToString(i)
                 \o " may need eager loading"]

\* the body of the loop for the 1-based line i (lines 51-72)
ControllerLineIssues(file_path, lines, i) ==
    IF ~fetch_search(lines[i]) THEN <<>>
    ELSE
    LET context_start == Max(0, i - 3)
        context_end == Min(Len(lines), i + 2)
        context == join(lines, context_start, context_end)
    IN
    IF eager_search(context) THEN <<>>
    ELSE
    LET var_match == var_search(lines[i]) IN
    IF ~var_match.ok THEN <<>>
    ELSE IF LookaheadHit(lines, i, var_match.group1)
         THEN <<NPlusOneIssue(file_path, i)>>
         ELSE <<>>

analyze_controller_action(file_path, text) ==
    LET lines == split(text) IN
    Flatten([i \in 1..Len(lines) |-> ControllerLineIssues(file_path, lines, i)])

\* re.findall(r'(\w+)\.(\w+)\.(each|map|size|count|\w+)', line) is not empty
association_search(line) ==
    \E i \in 1..Len(line) :
        LET w == SkipWord(line, i)
            w2 == SkipWord(line, w + 1)
        IN /\ w > i
           /\ At(line, w) = "."
           /\ w2 > w + 1
           /\ At(line, w2) = "."
           /\ IsWordChar(At(line, w2 + 1))

ViewIssue(file_path, i) ==
    [file |-> file_path,
     line |-> i,
     type |-> "view_association_access",
     severity |-> "info",
     message |-> "Association access in view - verify eager loading in controller"]

analyze_view_file(file_path, text) ==
    LET lines == split(text) IN
    Flatten([i \in 1..Len(lines) |->
        IF association_search(lines[i]) THEN <<ViewIssue(file_path, i)>> ELSE <<>>])

(***************************************************************************)
(* Source files: a file has a path, a text, and may fail to be read.       *)
(***************************************************************************)
LastIndexOf(s, c) ==
    LET hits == {j \in 1..Len(s) : At(s, j) = c} IN
    IF hits = {} THEN 0 ELSE CHOOSE j \in hits : \A k \in hits : k <= j

\* Path(p).name and Path(p).stem
PathName(path) == SubSeq(path, LastIndexOf(path, "/") + 1, Len(path))
PathStem(path) ==
    LET name == PathName(path)
        dot == LastIndexOf(name, ".")
    IN IF dot > 1 /\ dot < Len(name) THEN SubSeq(name, 1, dot - 1) ELSE name

\* directory.rglob('*' + suffix), directory.glob('**/*' + suffix): the files below
\* the directory whose name ends in the suffix
GlobFiles(fs, directory, suffix) ==
    {f \in fs : StartsWith(f.path, directory \o "/") /\ EndsWith(PathName(f.path), suffix)}

\* the orders in which the file system may hand out a set of files
ScanOrders(S) ==
    {sq \in [1..Cardinality(S) -> S] : \A i, j \in 1..Cardinality(S) : i # j => sq[i] # sq[j]}

(***************************************************************************)
(* analyze_where_clauses                                                   *)
(***************************************************************************)
\* \.where\(\s*(\w+):\s*  matched at position i
where_pattern_keyword(s, i) ==
    IF ~LitAt(s, i, ".where(") THEN NoMatch
    ELSE
    LET sp == SkipSpace(s, i + 7)
        w == SkipWord(s, sp)
    IN IF w = sp \/ At(s, w) # ":" THEN NoMatch
       ELSE [ok |-> TRUE, group1 |-> SubSeq(s, sp, w - 1), stop |-> SkipSpace(s, w + 1)]

\* \.where\(["\'](\w+)\s*=  matched at position i
where_pattern_string(s, i) ==
    IF ~LitAt(s, i, ".where(") \/ At(s, i + 7) \notin {"\"", "'"} THEN NoMatch
    ELSE
    LET w == SkipWord(s, i + 8)
        sp == SkipSpace(s, w)
    IN IF w = i + 8 \/ At(s, sp) # "=" THEN NoMatch
       ELSE [ok |-> TRUE, group1 |-> SubSeq(s, i + 8, w - 1), stop |-> sp + 1]

RECURSIVE finditer_where_keyword(_, _)
finditer_where_keyword(s, i) ==
    LET c == Find(s, i, ".where(") IN
    IF c = 0 THEN <<>>
    ELSE LET m == where_pattern_keyword(s, c) IN
         IF m.ok THEN <<m>> \o finditer_where_keyword(s, m.stop)
         ELSE finditer_where_keyword(s, c + 1)

RECURSIVE finditer_where_string(_, _)
finditer_where_string(s, i) ==
    LET c == Find(s, i, ".where(") IN
    IF c = 0 THEN <<>>
    ELSE LET m == where_pattern_string(s, c) IN
         IF m.ok THEN <<m>> \o finditer_where_string(s, m.stop)
         ELSE finditer_where_string(s, c + 1)

WhereIssue(file_path, column) ==
    [file |-> file_path,
     column |-> column,
     type |-> "where_clause_column",
     severity |-> "info",
     message |-> "Column \"" \o column
                 \o "\" used in WHERE clause - consider indexing if queries are slow"]

\* pattern_key = f"{file_path.stem}:{column}"
PatternKey(file_path, column) == PathStem(file_path) \o ":" \o column

\* the inner loop (lines 105-116) over the matches ms of one pattern in one file;
\* acc holds issues and seen_patterns
RECURSIVE AddWhereMatches(_, _, _, _)
AddWhereMatches(ms, k, file_path, acc) ==
    IF k > Len(ms) THEN acc
    ELSE LET key == PatternKey(file_path, ms[k].group1) IN
         AddWhereMatches(ms, k + 1, file_path,
            IF key \in acc.seen_patterns THEN acc
            ELSE [issues |-> Append(acc.issues, WhereIssue(file_path, ms[k].group1)),
                  seen_patterns |-> acc.seen_patterns \cup {key}])

\* one file of the scan (lines 94-118): a file that cannot be read raises inside the
\* try and the except clause passes, leaving no trace
ScanWhereFile(f, acc) ==
    IF ~f.readable THEN acc
    ELSE AddWhereMatches(finditer_where_string(f.text, 1), 1, f.path,
            AddWhereMatches(finditer_where_keyword(f.text, 1), 1, f.path, acc))

RECURSIVE ScanWhereFiles(_, _, _)
ScanWhereFiles(order, k, acc) ==
    IF k > Len(order) THEN acc
    ELSE ScanWhereFiles(order, k + 1, ScanWhereFile(order[k], acc))

\* analyze_where_clauses(rails_root), given the order in which the two globs
\* yield their files
analyze_where_clauses(models, controllers) ==
    [issues |-> ScanWhereFiles(models \o controllers, 1,
                               [issues |-> <<>>, seen_patterns |-> {}]).issues,
     stderr |-> <<>>]

(***************************************************************************)
(* scan_directory                                                          *)
(***************************************************************************)
\* the characters of U+0001..U+00FF that repr() writes as an escape, in code
\* order: U+0001..U+001F, U+007F..U+00A0, U+00AD
Unprintable == "\t\n\f\r ­"

\* repr() of one character of a string written between the quotes
ReprChar(c, quote) ==
    IF c = "\\" THEN "\\\\"
    ELSE IF c = quote THEN "\\" \o c
    ELSE IF c = "\n" THEN "\\n"
    ELSE IF c = "\t" THEN "\\t"
    ELSE IF c = "\r" THEN "\\r"
    ELSE IF \E k \in 1..Len(Unprintable) : At(Unprintable, k) = c
    THEN LET k == CHOOSE i \in 1..Len(Unprintable) : At(Unprintable, i) = c
             code == IF k <= 31 THEN k ELSE IF k <= 65 THEN 127 + (k - 32) ELSE 173
         IN "\\x" \o At("0123456789abcdef", (code \div 16) + 1)
                  \o At("0123456789abcdef", (code % 16) + 1)
    ELSE c

\* repr(s) of a string: double quotes when s holds ' and no ", single quotes otherwise
PyRepr(s) ==
    LET quote == IF Contains(s, "'") /\ ~Contains(s, "\"") THEN "\"" ELSE "'"
        body[i \in 0..Len(s)] ==
            IF i = 0 THEN "" ELSE body[i - 1] \o ReprChar(At(s, i), quote)
    IN quote \o body[Len(s)] \o quote

\* a read that succeeds, and the exceptions reading a file raises.  error is the
\* class of the exception; an OSError has its errno and strerror (detail) and is
\* raised by open(), which sets its filename, or by read(), which does not; any
\* other exception has errno 0 and its str(e) as detail
NoFailure == [error |-> "", errno |-> 0, detail |-> "", call |-> ""]
ReadFailures ==
    { [error |-> "PermissionError", errno |-> 13, detail |-> "Permission denied",
       call |-> "open"],
      [error |-> "IsADirectoryError", errno |-> 21, detail |-> "Is a directory",
       call |-> "open"],
      [error |-> "FileNotFoundError", errno |-> 2, detail |-> "No such file or directory",
       call |-> "open"],
      [error |-> "OSError", errno |-> 40, detail |-> "Too many levels of symbolic links",
       call |-> "open"],
      [error |-> "OSError", errno |-> 5, detail |-> "Input/output error", call |-> "read"],
      [error |-> "UnicodeDecodeError", errno |-> 0,
       detail |-> "'utf-8' codec can't decode byte 0xff in position 0: invalid start byte",
       call |-> "read"],
      [error |-> "UnicodeDecodeError", errno |-> 0,
       detail |-> "'utf-8' codec can't decode byte 0xe9 in position 5: invalid continuation byte",
       call |-> "read"] }

\* str(e) of the exception reading the file raised: an OSError writes its errno and
\* strerror, and the repr of its filename when it has one
ReadError(path, failure) ==
    IF failure.errno = 0 THEN failure.detail
    ELSE "[Errno " \o ToString(failure.errno) \o "] " \o failure.detail
         \o (IF failure.call = "open" THEN ": " \o PyRepr(path) ELSE "")
\* the last line of the traceback when nothing catches the exception
Traceback(path, failure) == failure.error \o ": " \o ReadError(path, failure)

Analyze(analyzer_func, file_path, text) ==
    IF analyzer_func = "analyze_controller_action"
    THEN analyze_controller_action(file_path, text)
    ELSE analyze_view_file(file_path, text)

\* scan_directory(directory, file_pattern, analyzer_func), given the order in which
\* rglob yields the files; acc holds all_issues and what was printed to stderr
RECURSIVE ScanFiles(_, _, _, _)
ScanFiles(order, k, analyzer_func, acc) ==
    IF k > Len(order) THEN acc
    ELSE ScanFiles(order, k + 1, analyzer_func,
            IF order[k].readable
            THEN [acc EXCEPT !.issues = @ \o Analyze(analyzer_func, order[k].path, order[k].text)]
            ELSE [acc EXCEPT !.stderr = Append(@, "Error analyzing " \o order[k].path
                                                  \o ": "
                                                  \o ReadError(order[k].path, order[k].failure))])

scan_directory(order, analyzer_func) ==
    ScanFiles(order, 1, analyzer_func, [issues |-> <<>>, stderr |-> <<>>])

(***************************************************************************)
(* The index report (analyze_indexes.main, lines 169-218): each print      *)
(* statement is a record naming it and the values it interpolates.         *)
(***************************************************************************)
BooleanPreview == 5
WherePreview == 10

\* by_type[t]
RECURSIVE OfType(_, _, _)
OfType(issues, k, t) ==
    IF k > Len(issues) THEN <<>>
    ELSE (IF issues[k].type = t THEN <<issues[k]>> ELSE <<>>) \o OfType(issues, k + 1, t)

\* the word characters in code point order
WordOrder == "0123456789ABCDEFGHIJKLMNOPQRSTUVWXYZ_abcdefghijklmnopqrstuvwxyzª²³µ¹º¼½¾ÀÁÂÃÄÅÆÇÈÉÊËÌÍÎÏÐÑÒÓÔÕÖØÙÚÛÜÝÞßàáâãäåæçèéêëìíîïðñòóôõöøùúûüýþÿ"
Ord(c) == CHOOSE i \in 1..Len(WordOrder) : At(WordOrder, i) = c

\* a < b for Python strings of word characters
RECURSIVE StrLess(_, _)
StrLess(a, b) ==
    IF b = "" THEN FALSE
    ELSE IF a = "" THEN TRUE
    ELSE IF At(a, 1) # At(b, 1) THEN Ord(At(a, 1)) < Ord(At(b, 1))
    ELSE StrLess(Tail(a), Tail(b))

\* sorted(S)
RECURSIVE sorted(_)
sorted(S) ==
    IF S = {} THEN <<>>
    ELSE LET m == CHOOSE x \in S : \A y \in S \ {x} : StrLess(x, y) IN
         <<m>> \o sorted(S \ {m})

\* sq[:n]
Take(sq, n) == SubSeq(sq, 1, Min(n, Len(sq)))

MissingReport(issues) ==
    IF issues = <<>> THEN <<>>
    ELSE <<[print |-> "missing_header", n |-> Len(issues)]>>
         \o [k \in 1..Len(issues) |->
                [print |-> "missing_item", table |-> issues[k].table,
                 column |-> issues[k].column, suggestion |-> issues[k].suggestion]]

BooleanReport(issues) ==
    IF issues = <<>> THEN <<>>
    ELSE <<[print |-> "boolean_header", n |-> Len(issues)]>>
         \o [k \in 1..Len(Take(issues, BooleanPreview)) |->
                [print |-> "boolean_item", table |-> issues[k].table,
                 column |-> issues[k].column, suggestion |-> issues[k].suggestion]]
         \o (IF Len(issues) > BooleanPreview
             THEN <<[print |-> "boolean_more", n |-> Len(issues) - BooleanPreview]>>
             ELSE <<>>)

WhereReport(issues) ==
    IF issues = <<>> THEN <<>>
    ELSE LET unique_columns == {issues[k].column : k \in 1..Len(issues)}
             shown == Take(sorted(unique_columns), WherePreview)
         IN <<[print |-> "where_header", n |-> Len(issues)]>>
            \o [k \in 1..Len(shown) |-> [print |-> "where_item", column |-> shown[k]]]
            \o (IF Cardinality(unique_columns) > WherePreview
                THEN <<[print |-> "where_more",
                        n |-> Cardinality(unique_columns) - WherePreview]>>
                ELSE <<>>)

IndexReport(d, issues) ==
    <<[print |-> "tables_found", n |-> Len(d)],
      [print |-> "opportunities_found", n |-> Len(issues)]>>
    \o MissingReport(OfType(issues, 1, "missing_foreign_key_index"))
    \o BooleanReport(OfType(issues, 1, "boolean_index_opportunity"))
    \o WhereReport(OfType(issues, 1, "where_clause_column"))
    \o (IF issues = <<>> THEN <<[print |-> "no_issues"]>> ELSE <<>>)

(***************************************************************************)
(* analyze_config.py.  A YAML value is a record tagged with its Python     *)
(* type; an environment's configuration is a function from the setting     *)
(* names it holds to their values.                                         *)
(***************************************************************************)
YNull == [t |-> "NoneType"]
YInt(n) == [t |-> "int", v |-> n]
YBool(b) == [t |-> "bool", v |-> b]
YStr(x) == [t |-> "str", v |-> x]
YMap(m) == [t |-> "dict", v |-> m]
YList(items) == [t |-> "list", v |-> items]
\* a float, kept as its number of halves: YFloat(15) is 7.5
YFloat(halves) == [t |-> "float", v |-> halves]
\* !!set and !!binary: a set of values, and bytes kept as a string
YSet(items) == [t |-> "set", v |-> items]
YBytes(x) == [t |-> "bytes", v |-> x]
\* a date or a timestamp; type is datetime.date or datetime.datetime
YDate(type, text) == [t |-> type, v |-> text]

\* env_config.get(key)
DictGet(env_config, key) == IF key \in DOMAIN env_config THEN env_config[key] ELSE YNull

\* isinstance(x, int): bool is a subclass of int
IsInstanceInt(x) == x.t \in {"int", "bool"}
\* the number Python compares: True is 1, False is 0
IntValue(x) == IF x.t = "bool" THEN (IF x.v THEN 1 ELSE 0) ELSE x.v
\* str(x) in an f-string, for an int or a bool
PyStr(x) == IF x.t = "bool" THEN (IF x.v THEN "True" ELSE "False") ELSE ToString(x.v)
\* not x, on the values yaml.safe_load builds: None, False, a zero, and an empty
\* string, bytes, list, mapping or set; a date is never falsy
Falsy(x) ==
    \/ x.t = "NoneType"
    \/ (x.t = "bool" /\ ~x.v)
    \/ (x.t \in {"int", "float"} /\ x.v = 0)
    \/ (x.t \in {"str", "bytes"} /\ x.v = "")
    \/ (x.t = "list" /\ x.v = <<>>)
    \/ (x.t = "dict" /\ DOMAIN x.v = {})
    \/ (x.t = "set" /\ x.v = {})

\* "key in x" for a string key is defined on a mapping, a list, a set and a string
Iterable(x) == x.t \in {"dict", "list", "set", "str"}
\* key in x, for a string key: a key of the mapping, an item of the list or the
\* set, a substring of the string
PyIn(key, x) ==
    IF x.t = "dict" THEN key \in DOMAIN x.v
    ELSE IF x.t = "list" THEN \E k \in 1..Len(x.v) : x.v[k] = YStr(key)
    ELSE IF x.t = "set" THEN YStr(key) \in x.v
    ELSE Contains(x.v, key)
\* the last line of the traceback when "key in x" raises for a string key: bytes
\* take the test and reject the string, the other types have no such test
NotIterable(x) ==
    IF x.t = "bytes" THEN "TypeError: a bytes-like object is required, not 'str'"
    ELSE "TypeError: argument of type '" \o x.t \o "' is not iterable"
\* the last line of the traceback when x[key] raises for a string key
\* (the wording of Python 3.11)
BadIndex(x) ==
    IF x.t = "list" THEN "TypeError: list indices must be integers or slices, not str"
    ELSE IF x.t = "set" THEN "TypeError: 'set' object is not subscriptable"
    ELSE "TypeError: string indices must be integers, not 'str'"

\* how a call ends: it returns its issues, or raises and leaves the last line of
\* the traceback
Returned(issues) == [raised |-> "", issues |-> issues]
Raised(line) == [raised |-> line, issues |-> <<>>]

ConfigIssue(env_name, setting, severity, message) ==
    [environment |-> env_name, setting |-> setting, severity |-> severity, message |-> message]

PoolMin == 5
PoolMax == 20

analyze_connection_pool(env_config, env_name) ==
    LET pool_size == DictGet(env_config, "pool") IN
    IF pool_size.t = "NoneType"
    THEN <<ConfigIssue(env_name, "pool", "warning",
                       "Connection pool size not explicitly set (defaults to 5)")>>
    ELSE IF IsInstanceInt(pool_size)
    THEN IF IntValue(pool_size) < PoolMin
         THEN <<ConfigIssue(env_name, "pool", "warning",
                   "Connection pool size (" \o PyStr(pool_size) \o ") is quite small")>>
         ELSE IF IntValue(pool_size) > PoolMax
         THEN <<ConfigIssue(env_name, "pool", "info",
                   "Connection pool size (" \o PyStr(pool_size) \o ") is quite large")>>
         ELSE <<>>
    ELSE <<>>

\* 'statement_timeout' not in env_config.get('variables', {}) is evaluated when
\* the section has a variables key, and raises when its value is not iterable
analyze_timeouts(env_config, env_name) ==
    IF "variables" \in DOMAIN env_config /\ ~Iterable(env_config["variables"])
    THEN Raised(NotIterable(env_config["variables"]))
    ELSE Returned(
        (IF "variables" \notin DOMAIN env_config
            \/ ~PyIn("statement_timeout", env_config["variables"])
         THEN <<ConfigIssue(env_name, "statement_timeout", "warning",
                            "statement_timeout not configured")>>
         ELSE <<>>)
        \o (IF "connect_timeout" \notin DOMAIN env_config
            THEN <<ConfigIssue(env_name, "connect_timeout", "info",
                               "connect_timeout not configured")>>
            ELSE <<>>)
        \o (IF "checkout_timeout" \notin DOMAIN env_config
            THEN <<ConfigIssue(env_name, "checkout_timeout", "info",
                               "checkout_timeout not configured (defaults to 5 seconds)")>>
            ELSE <<>>))

analyze_prepared_statements(env_config, env_name) ==
    LET prepared_statements == DictGet(env_config, "prepared_statements") IN
    IF prepared_statements = YBool(FALSE)
    THEN <<ConfigIssue(env_name, "prepared_statements", "info",
                       "Prepared statements are disabled")>>
    ELSE IF prepared_statements.t = "NoneType" /\ env_name = "production"
    THEN <<ConfigIssue(env_name, "prepared_statements", "info",
                       "Prepared statements setting not explicit")>>
    ELSE <<>>

analyze_reaping_frequency(env_config, env_name) ==
    IF "reaping_frequency" \notin DOMAIN env_config /\ env_name = "production"
    THEN <<ConfigIssue(env_name, "reaping_frequency", "info",
                       "reaping_frequency not configured")>>
    ELSE <<>>

check_ssl_configuration(env_config, env_name) ==
    IF env_name = "production"
       /\ LET sslmode == DictGet(env_config, "sslmode") IN
          Falsy(sslmode) \/ sslmode = YStr("disable")
    THEN <<ConfigIssue(env_name, "sslmode", "warning",
                       "SSL/TLS not enforced for production database connections")>>
    ELSE <<>>

suggest_performance_extensions(env_name) ==
    <<ConfigIssue(env_name, "extensions", "info",
                  "Consider enabling pg_stat_statements extension")>>

\* the body of the environment loop (lines 211-226) for one environment, on the
\* document yaml.safe_load returned: "env_name not in config" raises on a document
\* that is not iterable, config[env_name] on a list or a string that holds the name
EnvironmentIssues(config, env_name) ==
    IF ~Iterable(config) THEN Raised(NotIterable(config))
    ELSE IF ~PyIn(env_name, config) THEN Returned(<<>>)
    ELSE IF config.t # "dict" THEN Raised(BadIndex(config))
    ELSE IF config.v[env_name].t # "dict" THEN Returned(<<>>)
    ELSE LET env_config == config.v[env_name].v
             timeouts == analyze_timeouts(env_config, env_name)
         IN IF timeouts.raised # "" THEN timeouts
            ELSE Returned(analyze_connection_pool(env_config, env_name)
                          \o timeouts.issues
                          \o analyze_prepared_statements(env_config, env_name)
                          \o analyze_reaping_frequency(env_config, env_name)
                          \o check_ssl_configuration(env_config, env_name))

\* all_issues of analyze_config.main (lines 208-229); the loop ends at the first
\* environment that raises
ConfigIssues(config) ==
    LET development == EnvironmentIssues(config, "development")
        test == EnvironmentIssues(config, "test")
        production == EnvironmentIssues(config, "production")
    IN IF development.raised # "" THEN development
       ELSE IF test.raised # "" THEN test
       ELSE IF production.raised # "" THEN production
       ELSE Returned(development.issues \o test.issues \o production.issues
                     \o suggest_performance_extensions("all"))

\* by_severity['warning'] is not empty
HasWarning(issues) == \E k \in 1..Len(issues) : issues[k].severity = "warning"

(***************************************************************************)
(* db/schema.rb as Rails writes it: table blocks, then index statements.   *)
(***************************************************************************)
NoCalls == [missing |-> 0, boolean |-> 0]
NoConfig == [load |-> "none"]

\* find_rails_root is not running
NoWalk ==
    /\ start_path = ""
    /\ marker_dirs = {}
    /\ current = ""

\* analyze_connection_pool is not running on a section of its own
NoPool ==
    /\ section = <<>>
    /\ section_name = ""
    /\ pool_issues = <<>>

\* no schema analyzer call is running step by step
NoFrame == [fn |-> "", issues |-> [in |-> "", at |-> 0, key |-> ""], t |-> 0, k |-> 0]
NoCall ==
    /\ frame = NoFrame
    /\ lists = <<>>
    /\ returns = <<>>

\* no main is running
NoMain ==
    /\ prog = "none"
    /\ root_found = FALSE
    /\ input_found = FALSE
    /\ files = {}
    /\ schema_failure = NoFailure
    /\ scan_order = <<>>
    /\ database_yml = NoConfig
    /\ where_clause_columns = <<>>
    /\ all_issues = <<>>
    /\ stdout = <<>>
    /\ stderr = <<>>
    /\ exit_code = -1

TableNames == {"posts", "orders"}

ColumnType(c) ==
    IF EndsWith(c, "_id") THEN "integer"
    ELSE IF IsBooleanName(c) THEN "boolean"
    ELSE "string"

\* the column lists a block may declare
ColumnLists ==
    { <<>>,
      <<"user_id">>,
      <<"title", "is_active", "user_id">>,
      <<"vendor_id", "active">>,
      <<"has_logo", "deleted_at", "author_id">> }

\* the index statements a schema may hold; no block declares table tags
IndexStmts ==
    { [table |-> "posts", cols |-> <<"user_id">>],
      [table |-> "posts", cols |-> <<"is_active">>],
      [table |-> "posts", cols |-> <<"title", "user_id">>],
      [table |-> "tags", cols |-> <<"user_id">>] }

RECURSIVE RenderColumns(_, _)
RenderColumns(cols, i) ==
    IF i > Len(cols) THEN ""
    ELSE "  t." \o ColumnType(cols[i]) \o " \"" \o cols[i] \o "\"\n"
         \o RenderColumns(cols, i + 1)

RenderBlock(b) ==
    "create_table \"" \o b.name \o "\", force: :cascade do |t|\n"
    \o RenderColumns(b.cols, 1) \o "end\n"

RECURSIVE RenderList(_, _)
RenderList(cols, i) ==
    IF i > Len(cols) THEN ""
    ELSE (IF i > 1 THEN ", " ELSE "") \o "\"" \o cols[i] \o "\"" \o RenderList(cols, i + 1)

RenderIndex(x) ==
    "add_index \"" \o x.table \o "\", [" \o RenderList(x.cols, 1) \o "]\n"

RECURSIVE RenderBlocks(_, _)
RenderBlocks(bs, i) ==
    IF i > Len(bs) THEN "" ELSE RenderBlock(bs[i]) \o RenderBlocks(bs, i + 1)

RECURSIVE RenderIndexes(_, _)
RenderIndexes(xs, i) ==
    IF i > Len(xs) THEN "" ELSE RenderIndex(xs[i]) \o RenderIndexes(xs, i + 1)

RenderSchema(src) == RenderBlocks(src.blocks, 1) \o RenderIndexes(src.indexes, 1)

SeqsUpTo(S, n) == UNION {[1..k -> S] : k \in 0..n}

Blocks == [name : TableNames, cols : ColumnLists]

(***************************************************************************)
(* The index analyzer on a schema file.                                    *)
(***************************************************************************)
InitSchema ==
    /\ pc = "schema_written"
    /\ schema_src \in [blocks : SeqsUpTo(Blocks, MaxTables),
                       indexes : SeqsUpTo(IndexStmts, MaxIndexes)]
    /\ content = RenderSchema(schema_src)
    /\ tables = <<>>
    /\ missing_fk_indexes = <<>>
    /\ boolean_opportunities = <<>>
    /\ calls = NoCalls
    /\ ctl_src = [n |-> 0]
    /\ ctl_content = ""
    /\ ctl_issues = <<>>
    /\ NoMain
    /\ NoWalk
    /\ NoPool
    /\ NoCall

\* tables = parse_schema(schema_file)
ParseSchema ==
    /\ pc = "schema_written"
    /\ tables' = parse_schema(content)
    /\ pc' = "parsed"
    /\ UNCHANGED <<schema_src, content, missing_fk_indexes, boolean_opportunities, calls, ctlVars, mainVars, rootVars, poolVars, callVars>>

\* missing_fk_indexes = analyze_missing_indexes(tables)
AnalyzeMissingIndexes ==
    /\ pc = "parsed"
    /\ calls.missing + calls.boolean < MaxCalls
    /\ missing_fk_indexes' = analyze_missing_indexes(tables)
    /\ calls' = [calls EXCEPT !.missing = @ + 1]
    /\ UNCHANGED <<pc, schema_src, content, tables, boolean_opportunities, ctlVars, mainVars, rootVars, poolVars, callVars>>

\* boolean_opportunities = analyze_boolean_columns(tables)
AnalyzeBooleanColumns ==
    /\ pc = "parsed"
    /\ calls.missing + calls.boolean < MaxCalls
    /\ boolean_opportunities' = analyze_boolean_columns(tables)
    /\ calls' = [calls EXCEPT !.boolean = @ + 1]
    /\ UNCHANGED <<pc, schema_src, content, tables, missing_fk_indexes, ctlVars, mainVars, rootVars, poolVars, callVars>>

NextSchema ==
    \/ ParseSchema
    \/ AnalyzeMissingIndexes
    \/ AnalyzeBooleanColumns

(***************************************************************************)
(* Properties of the schema pipeline.                                      *)
(***************************************************************************)
MissingRan == calls.missing > 0
BooleanRan == calls.boolean > 0

BlockCount == Len(schema_src.blocks)
BlockAt(i) == schema_src.blocks[i]
DistinctBlockNames ==
    \A i, j \in 1..BlockCount : i # j => BlockAt(i).name # BlockAt(j).name

\* some add_index statement of the schema names table t and column c
IndexStatementNames(t, c) ==
    \E k \in 1..Len(schema_src.indexes) :
        /\ schema_src.indexes[k].table = t
        /\ InSeq(c, schema_src.indexes[k].cols)

\* some add_index statement of the schema names table t with c as its first column
IndexStatementLeads(t, c) ==
    \E k \in 1..Len(schema_src.indexes) :
        /\ schema_src.indexes[k].table = t
        /\ schema_src.indexes[k].cols[1] = c

\* the positions of the findings of a result that are about (t, c)
FindingsFor(result, t, c) ==
    {i \in 1..Len(result) : result[i].table = t /\ result[i].column = c}

\* C1: in a schema whose blocks have distinct names, every column of a block whose
\* name ends in _id and that no add_index statement names gets exactly one finding
\* from parse_schema + analyze_missing_indexes, of type missing_foreign_key_index,
\* severity warning, with the suggestion add_index :<table>, :<column>.
C1_UnindexedForeignKeyReportedOnce ==
    (MissingRan /\ DistinctBlockNames) =>
        \A b \in 1..BlockCount : \A c \in 1..Len(BlockAt(b).cols) :
            LET t == BlockAt(b).name
                col == BlockAt(b).cols[c]
                hits == FindingsFor(missing_fk_indexes, t, col)
            IN (EndsWith(col, "_id") /\ ~IndexStatementNames(t, col)) =>
                /\ Cardinality(hits) = 1
                /\ \A i \in hits :
                    /\ missing_fk_indexes[i].type = "missing_foreign_key_index"
                    /\ missing_fk_indexes[i].severity = "warning"
                    /\ missing_fk_indexes[i].suggestion = "add_index :" \o t \o ", :" \o col

\* C2 as claimed: a foreign-key-shaped column of a table that an add_index statement
\* on that table lists at any position gets no missing_foreign_key_index finding.
C2_AnyPositionIndexSuppressesFinding ==
    MissingRan =>
        \A b \in 1..BlockCount : \A c \in 1..Len(BlockAt(b).cols) :
            LET t == BlockAt(b).name
                col == BlockAt(b).cols[c]
            IN (EndsWith(col, "_id") /\ IndexStatementNames(t, col)) =>
                FindingsFor(missing_fk_indexes, t, col) = {}

\* C2 amended: a foreign-key-shaped column of a table that is the first column of an
\* add_index statement on that table gets no missing_foreign_key_index finding.
C2_LeadingIndexSuppressesFinding ==
    MissingRan =>
        \A b \in 1..BlockCount : \A c \in 1..Len(BlockAt(b).cols) :
            LET t == BlockAt(b).name
                col == BlockAt(b).cols[c]
            IN (EndsWith(col, "_id") /\ IndexStatementLeads(t, col)) =>
                FindingsFor(missing_fk_indexes, t, col) = {}

\* a parsed table holds a foreign key that an index statement leads with, and the
\* analyzer has run and reported nothing for it
C2_Witness ==
    /\ MissingRan
    /\ \E i \in 1..Len(tables) : \E f \in 1..Len(tables[i].foreign_keys) :
        /\ IndexStatementLeads(tables[i].name, tables[i].foreign_keys[f])
        /\ FindingsFor(missing_fk_indexes, tables[i].name, tables[i].foreign_keys[f]) = {}

\* the claim's own reading of a boolean-looking column name
C3_BooleanShaped(c) ==
    \/ (Len(c) >= 3 /\ SubSeq(c, 1, 3) = "is_")
    \/ (Len(c) >= 4 /\ SubSeq(c, 1, 4) = "has_")
    \/ c = "active" \/ c = "enabled" \/ c = "published" \/ c = "deleted"

C3_Expected(e, c) == InSeq(c, e.columns) /\ C3_BooleanShaped(c) /\ ~InSeq(c, e.indexes)

\* C3: analyze_boolean_columns returns a boolean_index_opportunity finding of severity
\* info for (table, column) exactly when the column is in the table's column list, is
\* boolean-shaped and is not in the table's index list; one finding per declaration of
\* the column; the suggestion is the partial index on <column> = true.
C3_BooleanOpportunityIff ==
    BooleanRan =>
        /\ \A i \in 1..Len(boolean_opportunities) :
            LET f == boolean_opportunities[i] IN
            /\ f.type = "boolean_index_opportunity"
            /\ f.severity = "info"
            /\ HasKey(tables, f.table)
            /\ C3_Expected(Get(tables, f.table), f.column)
            /\ f.suggestion = "add_index :" \o f.table \o ", :" \o f.column
                              \o ", where: \"" \o f.column \o " = true\""
        /\ \A t \in 1..Len(tables) : \A c \in 1..Len(tables[t].columns) :
            LET col == tables[t].columns[c]
                declared == {k \in 1..Len(tables[t].columns) : tables[t].columns[k] = col}
            IN Cardinality(FindingsFor(boolean_opportunities, tables[t].name, col))
                = (IF C3_Expected(tables[t], col) THEN Cardinality(declared) ELSE 0)

\* one table has is_active and active indexed and no finding for either, another
\* has both unindexed and one finding for each, and none for its deleted_at
C3_Witness ==
    /\ BooleanRan
    /\ \E t, u \in 1..Len(tables) :
        /\ \A c \in {"is_active", "active"} :
            /\ InSeq(c, tables[t].columns)
            /\ InSeq(c, tables[t].indexes)
            /\ FindingsFor(boolean_opportunities, tables[t].name, c) = {}
            /\ InSeq(c, tables[u].columns)
            /\ ~InSeq(c, tables[u].indexes)
            /\ Cardinality(FindingsFor(boolean_opportunities, tables[u].name, c)) = 1
        /\ InSeq("deleted_at", tables[u].columns)
        /\ FindingsFor(boolean_opportunities, tables[u].name, "deleted_at") = {}

\* the last block of the schema that declares table name n
LastBlockNamed(n) ==
    BlockAt(CHOOSE i \in 1..BlockCount :
        /\ BlockAt(i).name = n
        /\ \A j \in 1..BlockCount : BlockAt(j).name = n => j <= i)

RECURSIVE IdColumns(_, _)
IdColumns(cols, i) ==
    IF i > Len(cols) THEN <<>>
    ELSE (IF EndsWith(cols[i], "_id") THEN <<cols[i]>> ELSE <<>>) \o IdColumns(cols, i + 1)

\* C9: a schema of N blocks with distinct names parses to N tables; a name declared
\* by two or more blocks has one entry, whose columns and foreign keys are those of
\* the last such block; the empty schema parses to zero tables and both schema
\* analyzers return no finding for it.
C9_TableCountAndLastWins ==
    pc = "parsed" =>
        /\ DistinctBlockNames => Len(tables) = BlockCount
        /\ \A n \in TableNames :
            Cardinality({i \in 1..BlockCount : BlockAt(i).name = n}) >= 2 =>
                /\ Cardinality({i \in 1..Len(tables) : tables[i].name = n}) = 1
                /\ Get(tables, n).columns = LastBlockNamed(n).cols
                /\ Get(tables, n).foreign_keys = IdColumns(LastBlockNamed(n).cols, 1)
        /\ content = "" =>
            /\ tables = <<>>
            /\ missing_fk_indexes = <<>>
            /\ boolean_opportunities = <<>>

\* C10: once the model is built, no step of any call of analyze_missing_indexes or
\* analyze_boolean_columns, in any order and any number of times, changes the model
\* (its tables and their column, foreign-key and index lists), and every call
\* returns the findings every earlier call of the same analyzer returned.
C10_AnalyzersReadOnlyAndStateless ==
    [][ /\ pc = "parsed" => tables' = tables
        /\ returns' # returns =>
              \A k \in 1..Len(returns) :
                  returns[k].fn = returns'[Len(returns')].fn
                      => returns[k].issues = returns'[Len(returns')].issues
      ]_vars

\* an analyzer has returned twice with findings, after appending them to the list
\* object of each call
C10_Witness ==
    /\ Len(returns) >= 2
    /\ returns[1].fn = returns[2].fn
    /\ returns[2].issues # <<>>
    /\ Len(lists) >= 2
    /\ lists[2] = returns[2].issues


(***************************************************************************)
(* Controller texts: a fetch line, optionally an eager-loading line and    *)
(* one or two lines using the fetched variable, among filler lines.  Each  *)
(* kind of line records what it is, independently of the patterns that     *)
(* scan it.                                                                *)
(***************************************************************************)
Filler == "    head :ok"

\* a fetch line with its kind of eager-loading line and of use line: fetch says
\* whether the line calls .all/.where/.find_by/.find, var the instance variable it
\* assigns ("" when none), eager whether the eager line calls an eager loader,
\* chain whether the use line dereferences two levels, of the variable use_var
Scenarios ==
    { [fetch_text |-> "    @posts = Post.all", fetch |-> TRUE, var |-> "posts",
       eager_text |-> "      .includes(:author)", eager |-> TRUE,
       use_text |-> "    @names = @posts.first.author", use_var |-> "posts", chain |-> TRUE],
      [fetch_text |-> "    @posts = Post.where(published: true)", fetch |-> TRUE, var |-> "posts",
       eager_text |-> "      .preload(:comments)", eager |-> TRUE,
       use_text |-> "    @names = @posts.first.author", use_var |-> "posts", chain |-> TRUE],
      [fetch_text |-> "    @post = Post.find_by(slug: params[:id])", fetch |-> TRUE, var |-> "post",
       eager_text |-> "      .eager_load(:tags)", eager |-> TRUE,
       use_text |-> "    render json: @post.author.name", use_var |-> "post", chain |-> TRUE],
      [fetch_text |-> "    posts = Post.find(ids)", fetch |-> TRUE, var |-> "",
       eager_text |-> "      .includes(:author)", eager |-> TRUE,
       use_text |-> "    @names = @posts.first.author", use_var |-> "posts", chain |-> TRUE],
      [fetch_text |-> "    @posts = Post.find_by_sql(query)", fetch |-> FALSE, var |-> "posts",
       eager_text |-> "      .includes(:author)", eager |-> TRUE,
       use_text |-> "    @names = @posts.first.author", use_var |-> "posts", chain |-> TRUE],
      [fetch_text |-> "    @posts = Post.all", fetch |-> TRUE, var |-> "posts",
       eager_text |-> "      .preloaded", eager |-> FALSE,
       use_text |-> "    @names = @posts.first.author", use_var |-> "posts", chain |-> TRUE],
      [fetch_text |-> "    @posts = Post.all", fetch |-> TRUE, var |-> "posts",
       eager_text |-> "      .includes(:author)", eager |-> TRUE,
       use_text |-> "    render json: @post.author.name", use_var |-> "post", chain |-> TRUE],
      [fetch_text |-> "    @posts = Post.all", fetch |-> TRUE, var |-> "posts",
       eager_text |-> "      .includes(:author)", eager |-> TRUE,
       use_text |-> "    @posts.each { |p| p.touch }", use_var |-> "posts", chain |-> FALSE] }

\* where the eager-loading line and the use line sit relative to the fetch line,
\* how far after the use line its second copy sits (0: there is none), and how many
\* lines follow the fetch line
EagerOffsets == {-3, -2, -1, 0, 1, 2, 3}
UseOffsets == {-1, 0, 1, 19, 20, 21}
SecondUseOffsets == {0, 1, 2}
TailLengths == {0, 1, 2, 3, 19, 20, 21}

ControllerLineText(src, k) ==
    LET parts == (IF k = src.fetch_at THEN <<src.sc.fetch_text>> ELSE <<>>)
                 \o (IF src.has_eager /\ k = src.eager_at THEN <<src.sc.eager_text>> ELSE <<>>)
                 \o (IF src.has_use /\ k \in {src.use_at, src.use2_at}
                     THEN <<src.sc.use_text>> ELSE <<>>)
    IN IF parts = <<>> THEN Filler
       ELSE parts[1] \o (IF Len(parts) >= 2 THEN "; " \o parts[2] ELSE "")
                     \o (IF Len(parts) >= 3 THEN "; " \o parts[3] ELSE "")

RECURSIVE RenderController(_, _)
RenderController(src, k) ==
    IF k > src.n THEN ""
    ELSE ControllerLineText(src, k) \o (IF k < src.n THEN "\n" ELSE "")
         \o RenderController(src, k + 1)

ControllerSources ==
    { [n |-> p + t, fetch_at |-> p, sc |-> sc,
       has_eager |-> he, eager_at |-> p + eo,
       has_use |-> hu, use_at |-> p + uo, use2_at |-> p + uo + so] :
        t \in TailLengths, p \in 1..MaxFetchLine, sc \in Scenarios,
        he \in BOOLEAN, eo \in EagerOffsets, hu \in BOOLEAN, uo \in UseOffsets,
        so \in SecondUseOffsets }

WellFormedSource(src) ==
    /\ src.has_eager => src.eager_at \in 1..src.n
    /\ ~src.has_eager => src.eager_at = src.fetch_at
    /\ src.has_use => src.use_at \in 1..src.n /\ src.use2_at \in 1..src.n
    /\ ~src.has_use => src.use_at = src.fetch_at /\ src.use2_at = src.fetch_at

ControllerPath == "app/controllers/posts_controller.rb"

InitController ==
    /\ pc = "controller_read"
    /\ ctl_src \in {src \in ControllerSources : WellFormedSource(src)}
    /\ ctl_content = RenderController(ctl_src, 1)
    /\ ctl_issues = <<>>
    /\ schema_src = [blocks |-> <<>>, indexes |-> <<>>]
    /\ content = ""
    /\ tables = <<>>
    /\ missing_fk_indexes = <<>>
    /\ boolean_opportunities = <<>>
    /\ calls = NoCalls
    /\ NoMain
    /\ NoWalk
    /\ NoPool
    /\ NoCall

\* issues = analyzer_func(file_path, content) for a controller file
AnalyzeControllerAction ==
    /\ pc = "controller_read"
    /\ ctl_issues' = analyze_controller_action(ControllerPath, ctl_content)
    /\ pc' = "controller_analyzed"
    /\ UNCHANGED <<ctl_src, ctl_content, schemaVars, mainVars, rootVars, poolVars, callVars>>

NextController == AnalyzeControllerAction

\* what the claim says about line L of the controller text, from what the text was
\* written from: a finding is due exactly when L is the fetch line, no eager-loading
\* call sits on lines L-2..L+2, the fetch line assigns an instance variable, and a
\* two-level chain on that variable sits on at least one of the 20 lines after L
C5_FindingDue(src, L) ==
    /\ src.sc.fetch /\ L = src.fetch_at
    /\ ~( /\ src.has_eager /\ src.sc.eager
          /\ src.eager_at >= L - 2 /\ src.eager_at <= L + 2 )
    /\ src.sc.var # ""
    /\ src.has_use /\ src.sc.chain /\ src.sc.use_var = src.sc.var
    /\ \E u \in {src.use_at, src.use2_at} : u >= L + 1 /\ u <= L + 20

\* C5: analyze_controller_action returns, for every line L of the text, exactly one
\* potential_n_plus_one finding of severity warning when L is a fetch line without
\* eager loading in its window (lines L-2..L+2) that assigns @v and @v.a.b occurs
\* within the 20 following lines, however many of them hold it, and no finding for
\* L otherwise.
C5_ControllerFindingIff ==
    pc = "controller_analyzed" =>
        /\ \A k \in 1..Len(ctl_issues) :
            /\ ctl_issues[k].type = "potential_n_plus_one"
            /\ ctl_issues[k].severity = "warning"
            /\ ctl_issues[k].file = ControllerPath
            /\ ctl_issues[k].line \in 1..ctl_src.n
        /\ \A L \in 1..ctl_src.n :
            Cardinality({k \in 1..Len(ctl_issues) : ctl_issues[k].line = L})
                = (IF C5_FindingDue(ctl_src, L) THEN 1 ELSE 0)

\* one finding at the fetch line although two of the 20 following lines hold the
\* chain, with an eager-loading call three lines before the fetch line, just
\* outside the window
C5_Witness ==
    /\ pc = "controller_analyzed"
    /\ Len(ctl_issues) = 1
    /\ ctl_issues[1].line = ctl_src.fetch_at
    /\ ctl_src.has_use /\ ctl_src.use_at = ctl_src.fetch_at + 19
    /\ ctl_src.use2_at = ctl_src.fetch_at + 20
    /\ ctl_src.has_eager /\ ctl_src.sc.eager /\ ctl_src.eager_at = ctl_src.fetch_at - 3


SpecController == InitController /\ [][NextController]_vars

(***************************************************************************)
(* The three entry points.  A run starts with main about to be called on   *)
(* a project tree and ends when main returns or the process is aborted.    *)
(***************************************************************************)
MaxFiles == 2

\* source texts with .where call sites, and the columns their call sites filter on
WhereSources ==
    { [text |-> "class User\nend\n", columns |-> {}],
      [text |-> "User.where(status: 1)\n", columns |-> {"status"}],
      [text |-> "User.where(status: 1)\nUser.where(\"status = ?\", 2)\n"
                \o "User.where( role: 3).where(status: 4)\n",
       columns |-> {"status", "role"}],
      [text |-> "a.where(age: 1)\na.where(city: 1)\na.where(email: 1)\na.where(kind: 1)\n"
                \o "a.where(name: 1)\na.where(plan: 1)\na.where(rank: 1)\na.where(role: 1)\n"
                \o "a.where(size: 1)\na.where(state: 1)\na.where(status: 1)\na.where(zone: 1)\n",
       columns |-> {"age", "city", "email", "kind", "name", "plan", "rank", "role",
                    "size", "state", "status", "zone"}] }

\* texts of controllers and views
NPlusOneTexts ==
    { "    head :ok\n",
      "    @posts = Post.all\n    @names = @posts.first.author\n",
      "<%= post.author.name %>\n" }

\* the directory find_rails_root returns
rails_root == "/srv/shop"

IndexPaths ==
    { rails_root \o "/app/models/user.rb",
      rails_root \o "/app/models/admin/user.rb",
      rails_root \o "/app/controllers/users_controller.rb",
      rails_root \o "/lib/user.rb" }

NPlusOnePaths ==
    { rails_root \o "/app/controllers/users_controller.rb",
      rails_root \o "/app/controllers/api/users_controller.rb",
      rails_root \o "/app/views/users/index.html.erb",
      rails_root \o "/app/views/users/show.html.haml",
      rails_root \o "/app/views/users/notes.txt" }

\* what a path may hold: one of the texts, or a file that cannot be read
FileContents(texts, failures) ==
    [text : texts, readable : {TRUE}, failure : {NoFailure}]
    \cup [text : {""}, readable : {FALSE}, failure : failures]

\* the trees of at most MaxFiles files on the paths
FileTrees(paths, texts, failures) ==
    UNION { { {[path |-> q, text |-> f[q].text, readable |-> f[q].readable,
                failure |-> f[q].failure] : q \in P} :
              f \in [P -> FileContents(texts, failures)] } :
            P \in {Q \in SUBSET paths : Cardinality(Q) <= MaxFiles} }

\* the schemas the index main is run on
MainSchemas ==
    { [blocks |-> <<>>, indexes |-> <<>>],
      [blocks |-> <<[name |-> "posts", cols |-> <<"title", "user_id", "café_id">>]>>,
       indexes |-> <<>>],
      [blocks |-> <<[name |-> "posts", cols |-> <<"user_id", "is_a", "is_b", "has_c",
                                                  "active", "enabled">>]>>,
       indexes |-> <<[table |-> "posts", cols |-> <<"user_id">>]>>],
      [blocks |-> <<[name |-> "flags", cols |-> <<"is_a", "is_b", "has_c", "active",
                                                  "enabled", "published", "is_g">>]>>,
       indexes |-> <<>>] }

\* the environment sections a database.yml may hold
EnvConfigs ==
    { [adapter |-> YStr("postgresql")],
      [pool |-> YInt(0)],
      [pool |-> YInt(4), sslmode |-> YStr("disable")],
      [pool |-> YInt(5), sslmode |-> YStr("")],
      [pool |-> YInt(10), variables |-> YMap([statement_timeout |-> YStr("30s")]),
       connect_timeout |-> YInt(2), checkout_timeout |-> YInt(5),
       prepared_statements |-> YBool(TRUE), reaping_frequency |-> YInt(60),
       sslmode |-> YStr("require")],
      [pool |-> YInt(20), variables |-> YMap([lock_timeout |-> YStr("5s")]),
       prepared_statements |-> YBool(FALSE)],
      [pool |-> YInt(21), sslmode |-> YStr("verify-full")],
      [pool |-> YBool(TRUE), sslmode |-> YBool(FALSE)],
      [pool |-> YStr(" ENV.fetch(\"RAILS_MAX_THREADS\") { 5 } ")],
      [pool |-> YInt(5), variables |-> YNull],
      [pool |-> YInt(5), variables |-> YInt(30000)],
      [variables |-> YBool(TRUE)],
      [variables |-> YFloat(1)],
      [pool |-> YInt(10), variables |-> YStr("statement_timeout=30s"), sslmode |-> YMap(<<>>)],
      [pool |-> YInt(10), variables |-> YStr("lock_timeout=5s"), sslmode |-> YFloat(0)],
      [pool |-> YInt(10), variables |-> YList(<<YStr("statement_timeout")>>),
       sslmode |-> YList(<<>>)],
      [pool |-> YInt(10), variables |-> YList(<<YStr("lock_timeout")>>),
       sslmode |-> YInt(0)],
      [pool |-> YInt(10), variables |-> YSet({YStr("statement_timeout")}),
       sslmode |-> YSet({})],
      [pool |-> YDate("datetime.date", "2024-01-01"), variables |-> YSet({}),
       sslmode |-> YBytes("")],
      [variables |-> YBytes("abc"), sslmode |-> YDate("datetime.datetime", "2024-01-01 00:00:00")] }

Environments == {"development", "test", "production"}

\* how reading a file that exists() found may fail: not on a broken or looping link
FoundFailures == {f \in ReadFailures : f.errno \notin {2, 40}}

\* str(e) of the exceptions load_database_config raises: the file cannot be read,
\* or yaml.safe_load rejects its text
LoadErrors ==
    { ReadError(rails_root \o "/config/database.yml", failure) : failure \in FoundFailures }
    \cup { "mapping values are not allowed here\n  in \"<unicode string>\", line 1, column 5:\n    a: b: c\n        ^" }

\* the documents that are not mappings: empty, a scalar, a string, bytes, a list,
\* a set
PlainDocuments ==
    { YNull, YInt(42), YBool(TRUE), YFloat(3), YStr("hello"), YStr("my production settings"),
      YList(<<YStr("development"), YStr("test")>>), YList(<<YStr("staging")>>),
      YSet({}), YSet({YStr("production")}), YBytes("production"),
      YDate("datetime.date", "2024-01-01") }

\* how loading config/database.yml may end: load_database_config raises, or
\* yaml.safe_load returns the document, most often a mapping from environment
\* names to sections
DatabaseYmls ==
    { [load |-> "error", message |-> m] : m \in LoadErrors }
    \cup { [load |-> "ok", value |-> x] : x \in PlainDocuments }
    \cup { [load |-> "ok", value |-> YMap(m)] :
           m \in UNION { [P -> {YStr("default")} \cup {YMap(e) : e \in EnvConfigs}] :
                         P \in SUBSET Environments } }

\* the trees a run is started on: a run that stops before it scans is started on
\* the empty tree only
StartTrees(program, found_root, found_input) ==
    IF program = "analyze_indexes" /\ found_input
    THEN FileTrees(IndexPaths, {w.text : w \in WhereSources},
                   {f \in ReadFailures : f.errno = 40})
    ELSE IF program = "analyze_n_plus_one" /\ found_root
    THEN FileTrees(NPlusOnePaths, NPlusOneTexts,
                   {f \in ReadFailures :
                       \/ f.errno \in {2, 13}
                       \/ f.detail = "'utf-8' codec can't decode byte 0xff in position 0: invalid start byte"})
    ELSE {{}}

InitMains ==
    /\ pc = "main"
    /\ prog \in {"analyze_indexes", "analyze_n_plus_one", "analyze_config"}
    /\ root_found \in BOOLEAN
    /\ input_found \in IF root_found /\ prog # "analyze_n_plus_one" THEN BOOLEAN ELSE {FALSE}
    /\ schema_failure \in IF prog = "analyze_indexes" /\ input_found
                          THEN {NoFailure} \cup FoundFailures
                          ELSE {NoFailure}
    /\ schema_src \in IF prog = "analyze_indexes" /\ root_found
                         /\ schema_failure.error \in {"", "PermissionError"}
                      THEN MainSchemas
                      ELSE {[blocks |-> <<>>, indexes |-> <<>>]}
    /\ content = IF prog = "analyze_indexes" THEN RenderSchema(schema_src) ELSE ""
    /\ files \in StartTrees(prog, root_found, input_found /\ schema_failure = NoFailure)
    /\ database_yml \in IF prog = "analyze_config" THEN DatabaseYmls ELSE {NoConfig}
    /\ tables = <<>>
    /\ missing_fk_indexes = <<>>
    /\ boolean_opportunities = <<>>
    /\ calls = NoCalls
    /\ ctl_src = [n |-> 0]
    /\ ctl_content = ""
    /\ ctl_issues = <<>>
    /\ scan_order = <<>>
    /\ where_clause_columns = <<>>
    /\ all_issues = <<>>
    /\ stdout = <<>>
    /\ stderr = <<>>
    /\ exit_code = -1
    /\ NoWalk
    /\ NoPool
    /\ NoCall

\* print(message, file=sys.stderr); sys.exit(1), and an uncaught exception, whose
\* traceback the interpreter prints before it exits with status 1
Abort(printed, message) ==
    /\ pc' = "aborted"
    /\ stdout' = printed
    /\ stderr' = <<message>>
    /\ exit_code' = 1
    /\ UNCHANGED <<tables, missing_fk_indexes, boolean_opportunities, scan_order,
                   where_clause_columns, all_issues>>

RootError == "Error: Not in a Rails application directory"

\* the issues of one severity, in order
RECURSIVE OfSeverity(_, _, _)
OfSeverity(issues, k, severity) ==
    IF k > Len(issues) THEN <<>>
    ELSE (IF issues[k].severity = severity THEN <<issues[k]>> ELSE <<>>)
         \o OfSeverity(issues, k + 1, severity)

\* the per-severity listing both analyze_n_plus_one.main (lines 142-153) and
\* analyze_config.main (lines 237-248) print
SeverityReport(issues, severity) ==
    LET group == OfSeverity(issues, 1, severity) IN
    IF group = <<>> THEN <<>>
    ELSE <<[print |-> "severity_header", severity |-> severity, n |-> Len(group)]>>
         \o [k \in 1..Len(group) |-> [print |-> "issue", issue |-> group[k]]]

\* analyze_indexes.main
IndexMain ==
    /\ pc = "main"
    /\ prog = "analyze_indexes"
    /\ IF ~root_found THEN Abort(<<>>, RootError)
       ELSE IF ~input_found THEN Abort(<<>>, "Error: Could not find db/schema.rb")
       ELSE IF schema_failure # NoFailure
       THEN Abort(<<[print |-> "banner"]>>,
                  Traceback(rails_root \o "/db/schema.rb", schema_failure))
       ELSE \E models \in ScanOrders(GlobFiles(files, rails_root \o "/app/models", ".rb")),
               controllers \in ScanOrders(GlobFiles(files, rails_root \o "/app/controllers", ".rb")) :
            LET d == parse_schema(content)
                missing == analyze_missing_indexes(d)
                where == analyze_where_clauses(models, controllers)
                boolean == analyze_boolean_columns(d)
                issues == missing \o where.issues \o boolean
            IN /\ tables' = d
               /\ missing_fk_indexes' = missing
               /\ where_clause_columns' = where.issues
               /\ boolean_opportunities' = boolean
               /\ all_issues' = issues
               /\ scan_order' = <<models, controllers>>
               /\ stdout' = <<[print |-> "banner"]>> \o IndexReport(d, issues)
               /\ stderr' = where.stderr
               /\ exit_code' = 0
               /\ pc' = "returned"
    /\ UNCHANGED <<prog, root_found, input_found, files, schema_failure, database_yml,
                   schema_src, content, calls, ctlVars, rootVars, poolVars, callVars>>

\* return 0 if not by_severity['warning'] else 1
main_return_any_issue(issues) == IF issues # <<>> THEN 1 ELSE 0
main_return(issues) == IF HasWarning(issues) THEN 1 ELSE 0

NPlusOneReport(issues) ==
    <<[print |-> "banner"], [print |-> "issues_found", n |-> Len(issues)]>>
    \o SeverityReport(issues, "warning")
    \o SeverityReport(issues, "info")
    \o (IF issues = <<>> THEN <<[print |-> "no_issues"]>> ELSE <<>>)

\* analyze_n_plus_one.main
NPlusOneMain ==
    /\ pc = "main"
    /\ prog = "analyze_n_plus_one"
    /\ IF ~root_found THEN Abort(<<>>, RootError)
       ELSE \E controllers \in ScanOrders(GlobFiles(files, rails_root \o "/app/controllers", ".rb")),
               erb \in ScanOrders(GlobFiles(files, rails_root \o "/app/views", ".erb")),
               haml \in ScanOrders(GlobFiles(files, rails_root \o "/app/views", ".haml")) :
            LET controller_scan == scan_directory(controllers, "analyze_controller_action")
                erb_scan == scan_directory(erb, "analyze_view_file")
                haml_scan == scan_directory(haml, "analyze_view_file")
                issues == controller_scan.issues \o erb_scan.issues \o haml_scan.issues
            IN /\ all_issues' = issues
               /\ scan_order' = <<controllers, erb, haml>>
               /\ stdout' = NPlusOneReport(issues)
               /\ stderr' = controller_scan.stderr \o erb_scan.stderr \o haml_scan.stderr
               /\ exit_code' = main_return(issues)
               /\ pc' = "returned"
               /\ UNCHANGED <<tables, missing_fk_indexes, boolean_opportunities,
                              where_clause_columns>>
    /\ UNCHANGED <<prog, root_found, input_found, files, schema_failure, database_yml,
                   schema_src, content, calls, ctlVars, rootVars, poolVars, callVars>>

ConfigReport(issues) ==
    <<[print |-> "banner"], [print |-> "recommendations_found", n |-> Len(issues)]>>
    \o SeverityReport(issues, "warning")
    \o SeverityReport(issues, "info")
    \o (IF issues = <<>> THEN <<[print |-> "looks_good"]>> ELSE <<[print |-> "see_book"]>>)

\* analyze_config.main; nothing catches what the environment loop raises
ConfigMain ==
    /\ pc = "main"
    /\ prog = "analyze_config"
    /\ IF ~root_found THEN Abort(<<>>, RootError)
       ELSE IF ~input_found THEN Abort(<<>>, "Error: Could not find config/database.yml")
       ELSE IF database_yml.load = "error"
       THEN Abort(<<[print |-> "banner"]>>,
                  "Error parsing database.yml: " \o database_yml.message)
       ELSE LET result == ConfigIssues(database_yml.value) IN
            IF result.raised # "" THEN Abort(<<[print |-> "banner"]>>, result.raised)
            ELSE
            /\ all_issues' = result.issues
            /\ stdout' = ConfigReport(result.issues)
            /\ stderr' = <<>>
            /\ exit_code' = 0
            /\ pc' = "returned"
            /\ UNCHANGED <<tables, missing_fk_indexes, boolean_opportunities, scan_order,
                           where_clause_columns>>
    /\ UNCHANGED <<prog, root_found, input_found, files, schema_failure, database_yml,
                   schema_src, content, calls, ctlVars, rootVars, poolVars, callVars>>

NextMains ==
    \/ IndexMain
    \/ NPlusOneMain
    \/ ConfigMain

SpecMains == InitMains /\ [][NextMains]_vars

(***************************************************************************)
(* Properties of the entry points.                                         *)
(***************************************************************************)
IndexReturned == pc = "returned" /\ prog = "analyze_indexes"
NPlusOneReturned == pc = "returned" /\ prog = "analyze_n_plus_one"

\* the columns the call sites of a text filter on, as the text was written
ColumnsWritten(text) == (CHOOSE w \in WhereSources : w.text = text).columns

\* the model and controller files of the tree that can be read
WhereScanned ==
    {f \in GlobFiles(files, rails_root \o "/app/models", ".rb")
           \cup GlobFiles(files, rails_root \o "/app/controllers", ".rb") : f.readable}

WhereFindings(path, column) ==
    {k \in 1..Len(where_clause_columns) :
        /\ where_clause_columns[k].type = "where_clause_column"
        /\ where_clause_columns[k].file = path
        /\ where_clause_columns[k].column = column}

\* C4: over any set of scanned model and controller files, in any scan order, for
\* every file F and every column C filtered on in at least one .where call site of F,
\* the result of analyze_where_clauses holds exactly one where_clause_column finding
\* with file F and column C, whatever other files contain.
C4_OneFindingPerFileAndColumn ==
    IndexReturned =>
        \A f \in WhereScanned : \A c \in ColumnsWritten(f.text) :
            Cardinality(WhereFindings(f.path, c)) = 1

\* C6: once the root and the required input file are found, the N+1 main returns 1
\* exactly when some collected finding has severity warning (a controller finding)
\* and 0 otherwise, also when only info view findings exist; the index main and the
\* configuration main return 0 for every set of findings, warnings included.
C6_ExitStatus ==
    pc = "returned" =>
        /\ prog = "analyze_n_plus_one" =>
            /\ exit_code \in {0, 1}
            /\ exit_code = 1 <=>
                  \E k \in 1..Len(all_issues) : all_issues[k].severity = "warning"
            /\ \A k \in 1..Len(all_issues) :
                  all_issues[k].severity = "warning"
                      <=> all_issues[k].type = "potential_n_plus_one"
        /\ prog \in {"analyze_indexes", "analyze_config"} => exit_code = 0

\* the N+1 main returned 0 on a tree whose only findings are info view findings
C6_Witness ==
    /\ NPlusOneReturned
    /\ all_issues # <<>>
    /\ \A k \in 1..Len(all_issues) :
          all_issues[k].severity = "info" /\ all_issues[k].type = "view_association_access"
    /\ exit_code = 0

\* how many lines of a kind the report holds, and the number on the line of a kind
LinesOf(kind) == {k \in 1..Len(stdout) : stdout[k].print = kind}
NumberOn(kind) == IF LinesOf(kind) = {} THEN 0 ELSE stdout[CHOOSE k \in LinesOf(kind) : TRUE].n

UniqueWhereColumns == {where_clause_columns[k].column : k \in 1..Len(where_clause_columns)}

\* C7: the boolean group itemizes at most 5 findings and the WHERE group at most 10
\* unique columns; an overflow line is printed exactly when the group exceeds its cap;
\* in each group the itemized entries plus the overflow number equal the count on the
\* group's header line.
C7_TruncationPreservesCounts ==
    IndexReturned =>
        /\ Cardinality(LinesOf("boolean_item")) <= 5
        /\ Cardinality(LinesOf("where_item")) <= 10
        /\ Cardinality(LinesOf("boolean_more"))
              = (IF Len(boolean_opportunities) > 5 THEN 1 ELSE 0)
        /\ Cardinality(LinesOf("where_more"))
              = (IF Cardinality(UniqueWhereColumns) > 10 THEN 1 ELSE 0)
        /\ boolean_opportunities # <<>> =>
              Cardinality(LinesOf("boolean_item")) + NumberOn("boolean_more")
                  = NumberOn("boolean_header")
        /\ where_clause_columns # <<>> =>
              Cardinality(LinesOf("where_item")) + NumberOn("where_more")
                  = NumberOn("where_header")

\* the files of a scan that could be read, in scan order
Readable(order) == SelectSeq(order, LAMBDA f : f.readable)

\* the findings the scan of the run returns once the failing files are removed
FindingsWithoutFailing ==
    IF prog = "analyze_indexes"
    THEN analyze_where_clauses(Readable(scan_order[1]), Readable(scan_order[2])).issues
    ELSE scan_directory(Readable(scan_order[1]), "analyze_controller_action").issues
         \o scan_directory(Readable(scan_order[2]), "analyze_view_file").issues
         \o scan_directory(Readable(scan_order[3]), "analyze_view_file").issues

ScanFindings == IF prog = "analyze_indexes" THEN where_clause_columns ELSE all_issues

\* C8: in scan_directory and in analyze_where_clauses, when reading some files fails
\* the scan does not abort, each failing file is reported on the diagnostic stream
\* and contributes no finding, and the findings are those of the same scan without
\* the failing files.
C8_FailingFilesReportedAndSkipped ==
    (IndexReturned \/ NPlusOneReturned) =>
        /\ \A i \in 1..Len(scan_order) : \A k \in 1..Len(scan_order[i]) :
              ~scan_order[i][k].readable =>
                  /\ \E l \in 1..Len(stderr) : Contains(stderr[l], scan_order[i][k].path)
                  /\ \A j \in 1..Len(ScanFindings) :
                        ScanFindings[j].file # scan_order[i][k].path
        /\ ScanFindings = FindingsWithoutFailing

(***************************************************************************)
(* find_rails_root (the same function in the three scripts): the walk from *)
(* the resolved start directory toward the filesystem root, one loop       *)
(* iteration per step.                                                     *)
(***************************************************************************)
\* the directories of the file system
Directories ==
    { "/", "/srv", "/srv/shop", "/srv/shop/app", "/srv/shop/app/models",
      "/home", "/home/dev" }

\* Path(p).parent: the filesystem root is its own parent
Parent(path) ==
    LET slash == LastIndexOf(path, "/") IN
    IF slash <= 1 THEN "/" ELSE SubSeq(path, 1, slash - 1)

\* (current / "config" / "application.rb").exists()
MarkerExists(dir) == dir \in marker_dirs

InitRoot ==
    /\ pc = "walk"
    /\ start_path \in Directories
    /\ marker_dirs \in SUBSET Directories
    /\ current = start_path
    /\ schema_src = [blocks |-> <<>>, indexes |-> <<>>]
    /\ content = ""
    /\ tables = <<>>
    /\ missing_fk_indexes = <<>>
    /\ boolean_opportunities = <<>>
    /\ calls = NoCalls
    /\ ctl_src = [n |-> 0]
    /\ ctl_content = ""
    /\ ctl_issues = <<>>
    /\ NoMain
    /\ NoPool
    /\ NoCall

\* while current != current.parent: one test of the loop condition and, when it
\* holds, one run of the loop body; raise FileNotFoundError when it does not
FindRailsRootStep ==
    /\ pc = "walk"
    /\ IF current = Parent(current)
       THEN pc' = "root_raised" /\ current' = current
       ELSE IF MarkerExists(current)
       THEN pc' = "root_returned" /\ current' = current
       ELSE pc' = "walk" /\ current' = Parent(current)
    /\ UNCHANGED <<start_path, marker_dirs, schemaVars, ctlVars, mainVars, poolVars, callVars>>

NextRoot == FindRailsRootStep

SpecRoot == InitRoot /\ [][NextRoot]_vars

\* dir is the start directory or one of its ancestors, the filesystem root included
OnWalkPath(dir) ==
    \/ dir = start_path
    \/ dir = "/"
    \/ StartsWith(start_path, dir \o "/")

MarkedOnPath == {dir \in marker_dirs : OnWalkPath(dir)}

\* C11: for every start directory the upward walk terminates; find_rails_root
\* returns the nearest directory among the start and its ancestors, the filesystem
\* root included, that holds config/application.rb, and it raises the not-found
\* error only when no directory on that path, the root included, holds the marker.
C11_NearestMarkedDirectoryOrNotFound ==
    /\ pc \in {"root_returned", "root_raised"} \/ ENABLED FindRailsRootStep
    /\ pc = "walk" =>
          /\ OnWalkPath(current)
          /\ \A dir \in MarkedOnPath : Len(dir) <= Len(current)
    /\ pc = "root_returned" =>
          /\ current \in MarkedOnPath
          /\ \A dir \in MarkedOnPath : Len(dir) <= Len(current)
    /\ pc = "root_raised" => MarkedOnPath = {}

(***************************************************************************)
(* parse_schema on schemas with several index statements, written before   *)
(* or after the table blocks.                                              *)
(***************************************************************************)
MaxMergeTables == 2
MaxStatements == 3

MergeBlocks ==
    { [name |-> "posts", cols |-> <<"title", "user_id">>],
      [name |-> "posts", cols |-> <<"user_id">>],
      [name |-> "orders", cols |-> <<"vendor_id", "active">>] }

\* no block declares table tags
MergeStatements ==
    { [table |-> "posts", cols |-> <<"title", "user_id">>],
      [table |-> "posts", cols |-> <<"user_id">>],
      [table |-> "tags", cols |-> <<"user_id">>] }

RenderMergeSchema(src) ==
    IF src.indexes_first
    THEN RenderIndexes(src.indexes, 1) \o RenderBlocks(src.blocks, 1)
    ELSE RenderBlocks(src.blocks, 1) \o RenderIndexes(src.indexes, 1)

InitMerge ==
    /\ pc = "schema_written"
    /\ schema_src \in [blocks : SeqsUpTo(MergeBlocks, MaxMergeTables),
                       indexes : SeqsUpTo(MergeStatements, MaxStatements),
                       indexes_first : BOOLEAN]
    /\ content = RenderMergeSchema(schema_src)
    /\ tables = <<>>
    /\ missing_fk_indexes = <<>>
    /\ boolean_opportunities = <<>>
    /\ calls = NoCalls
    /\ ctl_src = [n |-> 0]
    /\ ctl_content = ""
    /\ ctl_issues = <<>>
    /\ NoMain
    /\ NoWalk
    /\ NoPool
    /\ NoCall

NextMerge == ParseSchema

SpecMerge == InitMerge /\ [][NextMerge]_vars

\* the first columns of the index statements that name table t, in statement order
RECURSIVE LeadingColumnsFor(_, _)
LeadingColumnsFor(t, k) ==
    IF k > Len(schema_src.indexes) THEN <<>>
    ELSE (IF schema_src.indexes[k].table = t
          THEN <<schema_src.indexes[k].cols[1]>> ELSE <<>>)
         \o LeadingColumnsFor(t, k + 1)

\* the table entries as they stand when the index loop starts
EntriesBuilt == BuildTables(finditer_table(content, 1), 1, <<>>)

\* C12: index statements are matched over the whole text after all table entries
\* are built; each appends exactly the first column of its list to the index list of
\* the table it names and changes no other table's entry; a statement naming a table
\* absent from the model changes nothing and adds no table; a table named by no
\* statement ends with an empty index list.
C12_IndexMerging ==
    pc = "parsed" =>
        /\ {tables[i].name : i \in 1..Len(tables)}
              = {BlockAt(b).name : b \in 1..BlockCount}
        /\ Len(tables) = Len(EntriesBuilt)
        /\ \A i \in 1..Len(tables) :
              /\ tables[i].indexes = LeadingColumnsFor(tables[i].name, 1)
              /\ [tables[i] EXCEPT !.indexes = <<>>] = EntriesBuilt[i]

\* two tables parsed from a schema with three statements: two name the same table,
\* one of them with a two-column list, one names a table without a block, and the
\* other table is named by none
C12_Witness ==
    /\ pc = "parsed"
    /\ Len(tables) = 2
    /\ \E i, j \in 1..2 :
          /\ tables[i].indexes = <<"title", "user_id">>
          /\ tables[j].indexes = <<>>
    /\ \E k \in 1..Len(schema_src.indexes) : schema_src.indexes[k].table = "tags"
    /\ \E k \in 1..Len(schema_src.indexes) : Len(schema_src.indexes[k].cols) = 2

(***************************************************************************)
(* analyze_connection_pool on one environment section.                     *)
(***************************************************************************)
\* what the pool setting of a section may be
PoolValues ==
    { YNull, YInt(-1), YInt(0), YInt(1), YInt(4), YInt(5), YInt(6), YInt(19),
      YInt(20), YInt(21), YInt(100), YBool(TRUE), YBool(FALSE), YStr("10"),
      YStr(" ENV.fetch(\"RAILS_MAX_THREADS\") { 5 } "), YFloat(15) }

PoolSections ==
    { [adapter |-> YStr("postgresql")] }
    \cup { [pool |-> x] : x \in PoolValues }
    \cup { [adapter |-> YStr("postgresql"), pool |-> x] : x \in PoolValues }

InitPool ==
    /\ pc = "section_loaded"
    /\ section \in PoolSections
    /\ section_name \in Environments
    /\ pool_issues = <<>>
    /\ schema_src = [blocks |-> <<>>, indexes |-> <<>>]
    /\ content = ""
    /\ tables = <<>>
    /\ missing_fk_indexes = <<>>
    /\ boolean_opportunities = <<>>
    /\ calls = NoCalls
    /\ ctl_src = [n |-> 0]
    /\ ctl_content = ""
    /\ ctl_issues = <<>>
    /\ NoMain
    /\ NoWalk
    /\ NoCall

\* issues.extend(analyze_connection_pool(env_config, env_name)): the function reads
\* the section with .get and assigns nothing in it
AnalyzeConnectionPool ==
    /\ pc = "section_loaded"
    /\ pool_issues' = analyze_connection_pool(section, section_name)
    /\ pc' = "pool_analyzed"
    /\ UNCHANGED <<section, section_name, schemaVars, ctlVars, mainVars, rootVars, callVars>>

NextPool == AnalyzeConnectionPool

SpecPool == InitPool /\ [][NextPool]_vars

PoolAbsent(sec) == "pool" \notin DOMAIN sec \/ sec.pool.t = "NoneType"
PoolInteger(sec) == "pool" \in DOMAIN sec /\ sec.pool.t = "int"

OneFindingOfSeverity(issues, severity) ==
    /\ Len(issues) = 1
    /\ issues[1].setting = "pool"
    /\ issues[1].severity = severity

\* C13: analyze_connection_pool returns at most one finding and never modifies the
\* record; the finding is a warning when pool is absent or an integer below 5, an
\* info when pool is an integer above 20, and there is none when pool is an integer
\* from 5 to 20 or a non-integer value.
C13_PoolFindingBySize ==
    [][(pc = "section_loaded" /\ pc' = "pool_analyzed") =>
          /\ section' = section
          /\ Len(pool_issues') <= 1
          /\ IF PoolAbsent(section)
             THEN OneFindingOfSeverity(pool_issues', "warning")
             ELSE IF PoolInteger(section) /\ section.pool.v < 5
             THEN OneFindingOfSeverity(pool_issues', "warning")
             ELSE IF PoolInteger(section) /\ section.pool.v > 20
             THEN OneFindingOfSeverity(pool_issues', "info")
             ELSE pool_issues' = <<>>]_vars

(***************************************************************************)
(* The two schema analyzers statement by statement.  A list is an object:  *)
(* the model's lists are reached through the model, the list of a call     *)
(* through the call's local name issues, and append changes the object its *)
(* receiver names.                                                         *)
(***************************************************************************)
\* a reference to a list of the model (table_info[key] of the t-th entry) and to a
\* list object a call created
ModelList(t, key) == [in |-> "tables", at |-> t, key |-> key]
CallList(id) == [in |-> "lists", at |-> id, key |-> ""]

\* the list a reference names
Deref(ref) == IF ref.in = "tables" THEN tables[ref.at][ref.key] ELSE lists[ref.at]

\* ref.append(x): the list object grows, wherever it lives
ListAppend(ref, x) ==
    IF ref.in = "tables"
    THEN /\ tables' = [tables EXCEPT ![ref.at][ref.key] = Append(@, x)]
         /\ lists' = lists
    ELSE /\ lists' = [lists EXCEPT ![ref.at] = Append(@, x)]
         /\ tables' = tables

\* one empty list made when the module is loaded and named by every call
NewList_shared(heap) ==
    IF heap = <<>> THEN [id |-> 1, lists |-> <<<<>>>>] ELSE [id |-> 1, lists |-> heap]
\* issues = [] (lines 69 and 125): a new empty list object
NewList(heap) == [id |-> Len(heap) + 1, lists |-> Append(heap, <<>>)]

\* the column lists and index statements of the schemas the calls are made on
CallColumnLists ==
    { <<>>,
      <<"user_id", "is_active", "active", "deleted_at">>,
      <<"enabled", "published", "deleted", "has_logo", "title", "author_id">>,
      <<"is_active", "activated", "is_active">> }
CallIndexLists ==
    { <<>>,
      <<[table |-> "posts", cols |-> <<"is_active">>], [table |-> "posts", cols |-> <<"active">>],
        [table |-> "posts", cols |-> <<"user_id">>]>>,
      <<[table |-> "orders", cols |-> <<"enabled">>], [table |-> "orders", cols |-> <<"deleted">>],
        [table |-> "posts", cols |-> <<"published">>]>> }
CallBlocks == [name : TableNames, cols : CallColumnLists]
CallSchemas ==
    [blocks : {<<>>} \cup {<<b>> : b \in CallBlocks}
              \cup {<<a, b>> : a \in CallBlocks, b \in CallBlocks},
     indexes : CallIndexLists]

InitCalls ==
    /\ pc = "schema_written"
    /\ schema_src \in CallSchemas
    /\ content = RenderSchema(schema_src)
    /\ tables = <<>>
    /\ missing_fk_indexes = <<>>
    /\ boolean_opportunities = <<>>
    /\ calls = NoCalls
    /\ ctl_src = [n |-> 0]
    /\ ctl_content = ""
    /\ ctl_issues = <<>>
    /\ NoMain
    /\ NoWalk
    /\ NoPool
    /\ NoCall

\* the call and its first statement, issues = []
CallAnalyzer(fn) ==
    /\ pc = "parsed"
    /\ frame = NoFrame
    /\ calls.missing + calls.boolean < MaxCalls
    /\ LET new == NewList(lists) IN
       /\ lists' = new.lists
       /\ frame' = [fn |-> fn, issues |-> CallList(new.id), t |-> 1, k |-> 1]
    /\ UNCHANGED <<pc, schemaVars, returns, ctlVars, mainVars, rootVars, poolVars>>

\* return issues
ReturnAnalyzer(fn) ==
    /\ frame.fn = fn
    /\ frame.t > Len(tables)
    /\ returns' = Append(returns, [fn |-> fn, issues |-> Deref(frame.issues)])
    /\ frame' = NoFrame
    /\ UNCHANGED <<pc, schema_src, content, tables, lists, ctlVars, mainVars, rootVars, poolVars>>

\* analyze_missing_indexes(tables) is called
CallMissingIndexes == CallAnalyzer("analyze_missing_indexes")

\* one turn of the loops of lines 71-72: the next foreign key of the table, or the
\* next table when the list is through; the test and the append of lines 73-81
LoopMissingIndexes ==
    /\ frame.fn = "analyze_missing_indexes"
    /\ frame.t <= Len(tables)
    /\ LET table_name == tables[frame.t].name
           foreign_keys == Deref(ModelList(frame.t, "foreign_keys"))
       IN IF frame.k > Len(foreign_keys)
          THEN /\ frame' = [frame EXCEPT !.t = @ + 1, !.k = 1]
               /\ UNCHANGED <<tables, lists>>
          ELSE LET fk == foreign_keys[frame.k] IN
               /\ frame' = [frame EXCEPT !.k = @ + 1]
               /\ IF ~InSeq(fk, Deref(ModelList(frame.t, "indexes")))
                  THEN ListAppend(frame.issues, MissingIssue(table_name, fk))
                  ELSE UNCHANGED <<tables, lists>>
    /\ UNCHANGED <<pc, schema_src, content, missing_fk_indexes, boolean_opportunities, calls,
                   returns, ctlVars, mainVars, rootVars, poolVars>>

\* missing_fk_indexes = the list the call returns
ReturnMissingIndexes ==
    /\ ReturnAnalyzer("analyze_missing_indexes")
    /\ missing_fk_indexes' = Deref(frame.issues)
    /\ calls' = [calls EXCEPT !.missing = @ + 1]
    /\ UNCHANGED boolean_opportunities

\* analyze_boolean_columns(tables) is called
CallBooleanColumns == CallAnalyzer("analyze_boolean_columns")

\* one turn of the loops of lines 127-128: the next column of the table, or the
\* next table when the list is through; the tests and the append of lines 129-138
LoopBooleanColumns ==
    /\ frame.fn = "analyze_boolean_columns"
    /\ frame.t <= Len(tables)
    /\ LET table_name == tables[frame.t].name
           columns == Deref(ModelList(frame.t, "columns"))
       IN IF frame.k > Len(columns)
          THEN /\ frame' = [frame EXCEPT !.t = @ + 1, !.k = 1]
               /\ UNCHANGED <<tables, lists>>
          ELSE LET column == columns[frame.k] IN
               /\ frame' = [frame EXCEPT !.k = @ + 1]
               /\ IF IsBooleanName(column)
                     /\ ~InSeq(column, Deref(ModelList(frame.t, "indexes")))
                  THEN ListAppend(frame.issues, BooleanIssue(table_name, column))
                  ELSE UNCHANGED <<tables, lists>>
    /\ UNCHANGED <<pc, schema_src, content, missing_fk_indexes, boolean_opportunities, calls,
                   returns, ctlVars, mainVars, rootVars, poolVars>>

\* boolean_opportunities = the list the call returns
ReturnBooleanColumns ==
    /\ ReturnAnalyzer("analyze_boolean_columns")
    /\ boolean_opportunities' = Deref(frame.issues)
    /\ calls' = [calls EXCEPT !.boolean = @ + 1]
    /\ UNCHANGED missing_fk_indexes

NextCalls ==
    \/ ParseSchema
    \/ CallMissingIndexes
    \/ LoopMissingIndexes
    \/ ReturnMissingIndexes
    \/ CallBooleanColumns
    \/ LoopBooleanColumns
    \/ ReturnBooleanColumns

SpecCalls == InitCalls /\ [][NextCalls]_vars

\* the calls made statement by statement return what the analyzers return as
\* functions of the model
CallsReturnAnalyzerValues ==
    \A k \in 1..Len(returns) :
        returns[k].issues = (IF returns[k].fn = "analyze_missing_indexes"
                             THEN analyze_missing_indexes(tables)
                             ELSE analyze_boolean_columns(tables))

Init == InitSchema
Next == NextSchema
Spec == Init /\ [][Next]_vars

====
